---- MODULE Spec2Model ----
(***************************************************************************)
(* Heartbeat integrity comparison of sponsa_backend/devices/views.py:      *)
(* the comparison helpers (_normalize_for_comparison, _compare_imei_lists, *)
(* _compare_ram_with_tolerance, _compare_heartbeat_with_registration) as   *)
(* operators, and DeviceDataPostView.post / DeviceManagementView.post as   *)
(* a state machine over the persisted records.                             *)
(*                                                                         *)
(* Python values are tagged records: k is the Python type, v the payload.  *)
(* A str is a sequence of one-character strings, so that strip(), lower(), *)
(* replace() and the regular expression act on characters.                 *)
(***************************************************************************)
EXTENDS Integers, Sequences, FiniteSets, TLC

VARIABLES
    \* --- the payload of the agent, the inputs and the output of one call of
    \* --- _compare_heartbeat_with_registration
    validated_data,     \* serializer.validated_data: the payload as the agent sent it
    device_type,        \* device.device_type of the compared device
    create_entry,       \* the device's history entry with action = "create"
    incoming_data,      \* the normalized incoming field map
    register_data,      \* the dict _normalize_mobile_payload returned for the payload
    result,             \* the dict the call returned, NoResult before the call
    \* --- persisted records and requests in flight (DeviceDataPostView.post)
    management,         \* DeviceManagement row: [is_locked, block_reason, blocked_at]
    snapshots,          \* DeviceHeartbeatHistory rows, by request id
    signals,            \* DeviceTemperSignal rows (a set of records)
    history,            \* DeviceHistory rows written after the "create" entry:
                        \* [req, action], req the request that wrote the row
    requests,           \* per request id: the local state of post()
    device,             \* the Device row: [is_online, last_seen_at, loan_status,
                        \*   deactivate_requested, deactivated_at, disk_recovery_key,
                        \*   installation_completed, installation_completed_at]
    \* --- what the response is built from, and one built response
    calls,              \* number of requests the other endpoints have served
    loans,              \* the Loan rows of the device, each with its LoanPayment rows
    response_data       \* the dict _build_device_response returned, NoResponse before

cmpVars == <<validated_data, register_data, device_type, create_entry, incoming_data, result>>
sysVars == <<management, snapshots, signals, history, requests, device, calls>>
rspVars == <<loans, response_data>>
vars == <<cmpVars, sysVars, rspVars>>

----------------------------------------------------------------------------
(* Python values *)

None == [k |-> "none"]
StrV(s) == [k |-> "str", v |-> s]
ListV(l) == [k |-> "list", v |-> l]
TupleV(t) == [k |-> "tuple", v |-> t]
BoolV(b) == [k |-> "bool", v |-> b]
IntV(n) == [k |-> "int", v |-> n]
DictV(map) == [k |-> "dict", v |-> map]

\* bool(value): None, "", [], (), {}, 0 and False are falsy
Truthy(value) ==
    CASE value.k = "none" -> FALSE
      [] value.k \in {"str", "list", "tuple"} -> Len(value.v) > 0
      [] value.k = "bool" -> value.v
      [] value.k = "int" -> value.v # 0
      [] value.k = "dict" -> DOMAIN value.v # {}

\* a == b of Python: equal types compare by value, bool is an int, the rest differ
PyEq(a, b) ==
    CASE a.k = b.k -> a = b
      [] a.k = "bool" /\ b.k = "int" -> (IF a.v THEN 1 ELSE 0) = b.v
      [] a.k = "int" /\ b.k = "bool" -> a.v = (IF b.v THEN 1 ELSE 0)
      [] OTHER -> FALSE

\* dict.get(key), None when the key is absent
Get(map, key) == IF key \in DOMAIN map THEN map[key] ELSE None

\* a or b
PyOr(a, b) == IF Truthy(a) THEN a ELSE b

----------------------------------------------------------------------------
(* Characters and str methods *)

Digits == <<"0", "1", "2", "3", "4", "5", "6", "7", "8", "9">>
UpperLetters == <<"A", "B", "C", "D", "E", "F", "G", "I", "K", "M", "N", "O", "T", "U", "X">>
LowerLetters == <<"a", "b", "c", "d", "e", "f", "g", "i", "k", "m", "n", "o", "t", "u", "x">>

\* U+212A KELVIN SIGN, one character: it is upper case, and lower() gives "k"
KelvinSign == "KELVIN"

\* code-point order of the characters the model uses
Alphabet ==
    <<" ", ".">> \o Digits \o UpperLetters \o <<"_">> \o LowerLetters \o <<KelvinSign>>

Range(s) == {s[i] : i \in DOMAIN s}

IsDigit(c) == c \in Range(Digits)
IsSpace(c) == c = " "

DigitValue(c) == (CHOOSE i \in DOMAIN Digits : Digits[i] = c) - 1
CharRank(c) == CHOOSE i \in DOMAIN Alphabet : Alphabet[i] = c

LowerChar(c) ==
    IF c \in Range(UpperLetters)
    THEN LowerLetters[CHOOSE i \in DOMAIN UpperLetters : UpperLetters[i] = c]
    ELSE IF c = KelvinSign THEN "k"
    ELSE c
UpperChar(c) ==
    IF c \in Range(LowerLetters)
    THEN UpperLetters[CHOOSE i \in DOMAIN LowerLetters : LowerLetters[i] = c]
    ELSE c

\* s.lower(), s.upper()
Lower(s) == [i \in DOMAIN s |-> LowerChar(s[i])]
Upper(s) == [i \in DOMAIN s |-> UpperChar(s[i])]

\* s.strip()
RECURSIVE LStrip(_)
LStrip(s) == IF s # <<>> /\ IsSpace(Head(s)) THEN LStrip(Tail(s)) ELSE s
RECURSIVE RStrip(_)
RStrip(s) ==
    IF s # <<>> /\ IsSpace(s[Len(s)]) THEN RStrip(SubSeq(s, 1, Len(s) - 1)) ELSE s
Strip(s) == RStrip(LStrip(s))

\* s.replace(" ", "")
RemoveSpaces(s) == SelectSeq(s, LAMBDA c : c # " ")

\* sub in s
Contains(s, sub) ==
    \E i \in 1..(Len(s) - Len(sub) + 1) : SubSeq(s, i, i + Len(sub) - 1) = sub

\* s < t of Python strings (lexicographic by code point)
RECURSIVE StrLess(_, _)
StrLess(s, t) ==
    IF t = <<>> THEN FALSE
    ELSE IF s = <<>> THEN TRUE
    ELSE IF Head(s) = Head(t) THEN StrLess(Tail(s), Tail(t))
    ELSE CharRank(Head(s)) < CharRank(Head(t))

\* sorted(items) for a list of strings: insertion sort
RECURSIVE Insert(_, _)
Insert(x, sorted) ==
    IF sorted = <<>> THEN <<x>>
    ELSE IF StrLess(Head(sorted), x) THEN <<Head(sorted)>> \o Insert(x, Tail(sorted))
    ELSE <<x>> \o sorted
RECURSIVE Sorted(_)
Sorted(items) == IF items = <<>> THEN <<>> ELSE Insert(Head(items), Sorted(Tail(items)))

\* str(n) for a natural number
RECURSIVE NatStr(_)
NatStr(n) == IF n < 10 THEN <<Digits[n + 1]>> ELSE NatStr(n \div 10) \o <<Digits[(n % 10) + 1]>>

\* str(value) for the values an IMEI list holds
PyStr(value) ==
    CASE value.k = "str" -> value.v
      [] value.k = "int" -> NatStr(value.v)

----------------------------------------------------------------------------
(* Field vocabulary and severity *)

HEARTBEAT_TRACKED_FIELDS ==
    <<"device_imeis", "serial_number", "installed_ram", "total_storage",
      "is_device_rooted", "is_usb_debugging_enabled", "is_developer_mode_enabled",
      "is_bootloader_unlocked", "is_custom_rom">>

HIGH_SEVERITY_FIELDS ==
    {"serial_number", "device_imeis", "is_device_rooted", "is_usb_debugging_enabled",
     "is_developer_mode_enabled", "is_bootloader_unlocked"}

MEDIUM_SEVERITY_FIELDS == {"installed_ram", "total_storage", "is_custom_rom"}

MOBILE_ONLY_FIELDS ==
    {"device_imeis", "is_device_rooted", "is_usb_debugging_enabled",
     "is_developer_mode_enabled", "is_bootloader_unlocked"}

DESKTOP_SKIP_FIELDS == {"serial_number", "total_storage", "is_custom_rom"}

\* a formatted str (reason, warning, lock_reason): the literal part, and the values
\* the f-string puts into it
Text(literal, args) == [k |-> "text", text |-> literal, args |-> args]

_get_mismatch_reason(field) ==
    CASE field = "serial_number" -> Text("Device serial number mismatch detected", <<>>)
      [] field = "device_imeis" -> Text("Device IMEI mismatch detected", <<>>)
      [] field = "is_device_rooted" -> Text("Device rooting status changed", <<>>)
      [] field = "is_usb_debugging_enabled" -> Text("USB debugging status changed", <<>>)
      [] field = "is_developer_mode_enabled" -> Text("Developer mode status changed", <<>>)
      [] field = "is_bootloader_unlocked" -> Text("Bootloader unlock status changed", <<>>)
      [] field = "is_custom_rom" -> Text("Custom ROM status changed", <<>>)
      [] field = "installed_ram" -> Text("Device RAM configuration changed", <<>>)
      [] field = "total_storage" -> Text("Device storage configuration changed", <<>>)
      [] OTHER -> Text("Field value changed", <<field>>)

_calculate_severity(field) ==
    IF field \in HIGH_SEVERITY_FIELDS THEN "high"
    ELSE IF field \in MEDIUM_SEVERITY_FIELDS THEN "medium"
    ELSE "medium"

----------------------------------------------------------------------------
(* _normalize_for_comparison *)

UnitTokens == {<<"G", "B">>, <<"M", "B">>, <<"T", "B">>, <<"K", "B">>}

\* one element of a list: item.strip().lower() for a str, str(item).lower() otherwise
NormalizeItem(item) ==
    IF item.k = "str" THEN Lower(Strip(item.v)) ELSE Lower(PyStr(item))

RECURSIVE _normalize_for_comparison(_)
_normalize_for_comparison(value) ==
    CASE value.k = "none" -> None
      [] value.k = "list" ->
            TupleV(Sorted([i \in DOMAIN value.v |-> NormalizeItem(value.v[i])]))
      [] value.k = "str" ->
            IF \E unit \in UnitTokens : Contains(Upper(value.v), unit)
            THEN StrV(Lower(RemoveSpaces(value.v)))
            ELSE StrV(Strip(Lower(value.v)))
      [] value.k = "dict" ->
            DictV([key \in DOMAIN value.v |-> _normalize_for_comparison(value.v[key])])
      [] OTHER -> value

----------------------------------------------------------------------------
(* _compare_imei_lists *)

\* a slip: the lists are compared as they are, element by element
_compare_imei_lists_AsGiven(registered_imeis, current_imeis) ==
    IF ~Truthy(registered_imeis) \/ ~Truthy(current_imeis)
    THEN [is_ok |-> TRUE, warning_message |-> None]
    ELSE [is_ok |-> registered_imeis.v = current_imeis.v, warning_message |-> None]

_compare_imei_lists(registered_imeis, current_imeis) ==
    IF ~Truthy(registered_imeis) \/ ~Truthy(current_imeis)
    THEN [is_ok |-> TRUE, warning_message |-> None]
    ELSE
      LET registered_normalized ==
              [i \in DOMAIN registered_imeis.v |-> Lower(Strip(PyStr(registered_imeis.v[i])))]
          current_normalized ==
              [i \in DOMAIN current_imeis.v |-> Lower(Strip(PyStr(current_imeis.v[i])))]
      IN  IF \E i \in DOMAIN current_normalized :
                 current_normalized[i] \notin Range(registered_normalized)
          THEN [is_ok |-> FALSE, warning_message |-> None]
          ELSE IF Len(current_normalized) < Len(registered_normalized)
          THEN [is_ok |-> TRUE,
                warning_message |->
                    Text("SECURITY WARNING: IMEI count decreased",
                         <<Len(registered_normalized), Len(current_normalized),
                           Len(registered_normalized) - Len(current_normalized)>>)]
          ELSE [is_ok |-> TRUE, warning_message |-> None]

----------------------------------------------------------------------------
(* Python float: IEEE 754 binary64, round to nearest even.                 *)
(* A float is [neg, i, f]: sign, integer part, and the binary digits of    *)
(* the fraction, as many as the 53-bit significand leaves after the        *)
(* integer part.                                                           *)

MantissaBits == 53

RECURSIVE BitLen(_)
BitLen(n) == IF n = 0 THEN 0 ELSE 1 + BitLen(n \div 2)

\* zero binary digits before the first one of the fraction r/den, 0 < r < den
RECURSIVE LeadingZeros(_, _)
LeadingZeros(r, den) == IF 2 * r >= den THEN 0 ELSE 1 + LeadingZeros(2 * r, den)

\* 2^k modulo den, for k below 3 * 22 and den below 2^15 (all products fit an int)
Pow2Mod(k, den) ==
    LET third == k \div 3
        low == (2 ^ third) % den
        high == (2 ^ (k - 2 * third)) % den
    IN  (((low * low) % den) * high) % den

\* what is left of the fraction r/den after its first n binary digits, times den
FracRem(r, den, n) == (r * Pow2Mod(n, den)) % den

\* the first n binary digits of the fraction r/den
FracBits(r, den, n) == [k \in 1..n |-> (2 * FracRem(r, den, k - 1)) \div den]

\* bits plus one unit in the last place: the last 0 becomes 1 and the digits
\* after it 0; without a 0 the carry leaves the fraction
Increment(bits) ==
    LET zeros == {j \in DOMAIN bits : bits[j] = 0}
    IN  IF zeros = {} THEN [carry |-> 1, bits |-> [j \in DOMAIN bits |-> 0]]
        ELSE LET last == CHOOSE j \in zeros : \A k \in zeros : k <= j
             IN  [carry |-> 0,
                  bits |-> [j \in DOMAIN bits |->
                               IF j < last THEN bits[j] ELSE IF j = last THEN 1 ELSE 0]]

\* float("<n / den>"): the decimal n/den correctly rounded to binary64
ToDouble(n, den) ==
    LET ipart == n \div den
        r == n % den
        nfrac == IF ipart > 0 THEN MantissaBits - BitLen(ipart)
                 ELSE IF r = 0 THEN 0
                 ELSE LeadingZeros(r, den) + MantissaBits
        bits == FracBits(r, den, nfrac)
        rest == FracRem(r, den, nfrac)
        nextBit == (2 * rest) \div den
        sticky == ((2 * rest) % den) # 0
        odd == IF nfrac = 0 THEN ipart % 2 = 1 ELSE bits[nfrac] = 1
        up == Increment(bits)
    IN  IF nextBit = 1 /\ (sticky \/ odd)
        THEN [neg |-> FALSE, i |-> ipart + up.carry, f |-> up.bits]
        ELSE [neg |-> FALSE, i |-> ipart, f |-> bits]

\* x - 1.0 for x >= 0. For x >= 1 the difference has no more significant digits
\* than x and is exact. For x < 1 it is negative; its magnitude is read nowhere
\* (a negative threshold is below every parsed value) and is left unrounded.
DoubleMinusOne(x) ==
    IF x.i >= 1 THEN [neg |-> FALSE, i |-> x.i - 1, f |-> x.f]
    ELSE LET ones == [j \in DOMAIN x.f |-> 1 - x.f[j]]
             up == Increment(ones)
         IN  [neg |-> TRUE, i |-> up.carry, f |-> up.bits]

PadTo(bits, n) == bits \o [j \in 1..(n - Len(bits)) |-> 0]

\* a < b of two digit sequences of one length: the first digit that differs
BitsLess(a, b) ==
    \E j \in DOMAIN a : a[j] < b[j] /\ \A k \in 1..(j - 1) : a[k] = b[k]

\* a < b of two floats, a >= 0
DoubleLess(a, b) ==
    IF b.neg THEN FALSE
    ELSE \/ a.i < b.i
         \/ /\ a.i = b.i
            /\ LET n == IF Len(a.f) > Len(b.f) THEN Len(a.f) ELSE Len(b.f)
               IN  BitsLess(PadTo(a.f, n), PadTo(b.f, n))

----------------------------------------------------------------------------
(* _compare_ram_with_tolerance *)

IsNumChar(c) == IsDigit(c) \/ c = "."

\* last index of the run of digits and dots that starts at i
RECURSIVE RunEnd(_, _)
RunEnd(s, i) == IF i < Len(s) /\ IsNumChar(s[i + 1]) THEN RunEnd(s, i + 1) ELSE i

\* first index after the white space that starts at i
RECURSIVE SkipSpace(_, _)
SkipSpace(s, i) == IF i <= Len(s) /\ IsSpace(s[i]) THEN SkipSpace(s, i + 1) ELSE i

\* re.match of (\d+\.?\d*)\s*GB (IGNORECASE) at index i: the group's last index,
\* 0 when there is no match. The group is the whole run of digits and dots at i:
\* a shorter one is followed by a digit or a dot, which \s*GB does not accept.
MatchAt(s, i) ==
    IF ~IsDigit(s[i]) THEN 0
    ELSE LET j == RunEnd(s, i)
             dots == Cardinality({d \in i..j : s[d] = "."})
             g == SkipSpace(s, j + 1)
         IN  IF /\ dots <= 1
                /\ g + 1 <= Len(s)
                /\ UpperChar(s[g]) = "G"
                /\ UpperChar(s[g + 1]) = "B"
             THEN j ELSE 0

\* int(digits), and 10 ** n
RECURSIVE DecValue(_)
DecValue(digits) ==
    IF digits = <<>> THEN 0
    ELSE 10 * DecValue(SubSeq(digits, 1, Len(digits) - 1)) + DigitValue(digits[Len(digits)])
RECURSIVE Pow10(_)
Pow10(n) == IF n = 0 THEN 1 ELSE 10 * Pow10(n - 1)

\* the decimal a group of digits with at most one dot writes: n / den
ParseDecimal(group) ==
    LET digits == SelectSeq(group, IsDigit)
        dotAt == IF \E d \in DOMAIN group : group[d] = "."
                 THEN CHOOSE d \in DOMAIN group : group[d] = "."
                 ELSE Len(group)
    IN  [n |-> DecValue(digits), den |-> Pow10(Len(group) - dotAt)]

\* float(group)
ParseFloat(group) == LET d == ParseDecimal(group) IN ToDouble(d.n, d.den)

\* match.group(1) of re.search, <<>> when nothing matches: re.search takes the
\* leftmost index with a match
RamToken(s) ==
    LET starts == {i \in DOMAIN s : MatchAt(s, i) > 0}
    IN  IF starts = {} THEN <<>>
        ELSE LET i == CHOOSE m \in starts : \A o \in starts : m <= o
             IN  SubSeq(s, i, MatchAt(s, i))

NoFloat == [k |-> "none"]

extract_ram_gb(ram_str) ==
    IF ram_str.k # "str" THEN NoFloat
    ELSE IF RamToken(ram_str.v) = <<>> THEN NoFloat
    ELSE [k |-> "float", v |-> ParseFloat(RamToken(ram_str.v))]

_compare_ram_with_tolerance(registered_ram, current_ram) ==
    IF ~Truthy(registered_ram) \/ ~Truthy(current_ram)
    THEN [is_ok |-> TRUE, reason |-> None]
    ELSE
      LET registered_gb == extract_ram_gb(registered_ram)
          current_gb == extract_ram_gb(current_ram)
      IN  IF registered_gb = NoFloat \/ current_gb = NoFloat
          THEN [is_ok |-> TRUE, reason |-> None]
          ELSE LET min_allowed_gb == DoubleMinusOne(registered_gb.v)
               IN  IF DoubleLess(current_gb.v, min_allowed_gb)
                   THEN [is_ok |-> FALSE,
                         reason |-> Text("RAM decreased significantly",
                                         <<registered_gb.v, current_gb.v, min_allowed_gb>>)]
                   ELSE [is_ok |-> TRUE, reason |-> None]

----------------------------------------------------------------------------
(* _get_registration_baseline and _compare_heartbeat_with_registration *)

EmptyMap == [key \in {} |-> None]
With(map, key, val) == [x \in DOMAIN map \cup {key} |-> IF x = key THEN val ELSE map[x]]

\* device.history.filter(action='create').first(): a row, or nothing
NoEntry == [exists |-> FALSE, new_values |-> EmptyMap]
Entry(new_values) == [exists |-> TRUE, new_values |-> new_values]

_get_registration_baseline(entry) ==
    IF entry.exists /\ DOMAIN entry.new_values # {} THEN entry.new_values ELSE EmptyMap

\* the dict returned when no comparison is made
EmptyResult(baseline_status) ==
    [mismatches |-> <<>>,
     high_severity_count |-> 0,
     medium_severity_count |-> 0,
     total_mismatches |-> 0,
     should_auto_lock |-> FALSE,
     lock_reason |-> None,
     comparison_details |-> EmptyMap,
     baseline_status |-> baseline_status]

\* a slip: any key counts as data
has_baseline_data_AnyKey(registration_data) == DOMAIN registration_data # {}

\* any(v is not None and v != "" and v != [] for v in registration_data.values())
has_baseline_data(registration_data) ==
    \E key \in DOMAIN registration_data :
        LET v == registration_data[key]
        IN  v # None /\ v # StrV(<<>>) /\ v # ListV(<<>>)

\* a slip: a mismatch that is not high is appended without being counted
RecordMismatch_HighCountedOnly(acc, field, severity, reason, registered, current) ==
    [mismatches |->
         Append(acc.mismatches, [field |-> field, severity |-> severity, reason |-> reason]),
     comparison_details |->
         With(acc.comparison_details, field,
              [status |-> "mismatch", severity |-> severity, registered |-> registered,
               current |-> current, reason |-> reason]),
     high_severity_count |->
         IF severity = "high" THEN acc.high_severity_count + 1 ELSE acc.high_severity_count,
     medium_severity_count |-> acc.medium_severity_count]

\* the mismatch branch of the loop: append to mismatches, fill comparison_details,
\* count by severity
RecordMismatch(acc, field, severity, reason, registered, current) ==
    [mismatches |->
         Append(acc.mismatches, [field |-> field, severity |-> severity, reason |-> reason]),
     comparison_details |->
         With(acc.comparison_details, field,
              [status |-> "mismatch", severity |-> severity, registered |-> registered,
               current |-> current, reason |-> reason]),
     high_severity_count |->
         IF severity = "high" THEN acc.high_severity_count + 1 ELSE acc.high_severity_count,
     medium_severity_count |->
         IF severity = "high" THEN acc.medium_severity_count
         ELSE acc.medium_severity_count + 1]

\* the branches that only fill comparison_details
RecordStatus(acc, field, status, registered, current) ==
    [acc EXCEPT !.comparison_details =
         With(@, field, [status |-> status, registered |-> registered, current |-> current])]

RecordWarning(acc, field, warning_message, registered, current) ==
    [acc EXCEPT !.comparison_details =
         With(@, field, [status |-> "matched_with_warning", registered |-> registered,
                         current |-> current, warning |-> warning_message])]

IsDesktop(dtype) == dtype \in {"desktop", "laptop"}

\* a slip: the gate tests 'desktop' alone
SkippedForDevice_DesktopOnly(dtype, field) ==
    dtype = "desktop" /\ field \in MOBILE_ONLY_FIELDS \cup DESKTOP_SKIP_FIELDS

\* the device-type gate of the loop: TRUE when the field is skipped
SkippedForDevice(dtype, field) ==
    \/ IsDesktop(dtype) /\ field \in MOBILE_ONLY_FIELDS
    \/ IsDesktop(dtype) /\ field \in DESKTOP_SKIP_FIELDS

\* a slip: a decreased IMEI count is recorded as a mismatch
CompareImeiField_WarningAsMismatch(acc, field, registered, current) ==
    LET cmp == _compare_imei_lists(registered, current)
    IN  IF ~cmp.is_ok \/ cmp.warning_message # None
        THEN RecordMismatch(acc, field, _calculate_severity(field),
                            _get_mismatch_reason(field), registered, current)
        ELSE RecordStatus(acc, field, "matched", registered, current)

\* the special handling of device_imeis
CompareImeiField(acc, field, registered, current) ==
    LET cmp == _compare_imei_lists(registered, current)
    IN  IF ~cmp.is_ok
        THEN RecordMismatch(acc, field, _calculate_severity(field),
                            _get_mismatch_reason(field), registered, current)
        ELSE IF cmp.warning_message # None
        THEN RecordWarning(acc, field, cmp.warning_message, registered, current)
        ELSE RecordStatus(acc, field, "matched", registered, current)

\* the reason a desktop RAM mismatch is recorded with
RamMismatchReason(ram_reason) ==
    IF ram_reason # None THEN ram_reason
    ELSE Text("Device RAM significantly decreased", <<>>)

\* a slip: the RAM branch takes the field's severity from _calculate_severity
CompareRamField_CalculatedSeverity(acc, field, registered, current) ==
    LET cmp == _compare_ram_with_tolerance(registered, current)
    IN  IF ~cmp.is_ok
        THEN RecordMismatch(acc, field, _calculate_severity(field),
                            RamMismatchReason(cmp.reason), registered, current)
        ELSE RecordStatus(acc, field, "matched", registered, current)

\* the special handling of installed_ram on desktop/laptop
CompareRamField(acc, field, registered, current) ==
    LET cmp == _compare_ram_with_tolerance(registered, current)
    IN  IF ~cmp.is_ok
        THEN RecordMismatch(acc, field, "high", RamMismatchReason(cmp.reason),
                            registered, current)
        ELSE RecordStatus(acc, field, "matched", registered, current)

\* a slip: the field is passed over when either side is empty
CompareExactField_EitherEmpty(acc, field, registered, current) ==
    LET registered_normalized == _normalize_for_comparison(registered)
        current_normalized == _normalize_for_comparison(current)
    IN  IF PyEq(registered_normalized, current_normalized)
        THEN RecordStatus(acc, field, "matched", registered, current)
        ELSE IF ~Truthy(registered_normalized) \/ ~Truthy(current_normalized)
        THEN RecordStatus(acc, field, "both_empty", registered, current)
        ELSE RecordMismatch(acc, field, _calculate_severity(field),
                            _get_mismatch_reason(field), registered, current)

\* the default comparison: normalize both sides, compare
CompareExactField(acc, field, registered, current) ==
    LET registered_normalized == _normalize_for_comparison(registered)
        current_normalized == _normalize_for_comparison(current)
    IN  IF PyEq(registered_normalized, current_normalized)
        THEN RecordStatus(acc, field, "matched", registered, current)
        ELSE IF ~Truthy(registered_normalized) /\ ~Truthy(current_normalized)
        THEN RecordStatus(acc, field, "both_empty", registered, current)
        ELSE RecordMismatch(acc, field, _calculate_severity(field),
                            _get_mismatch_reason(field), registered, current)

\* a slip: a field the heartbeat does not hold is compared as None
CompareField_AbsentAsNone(dtype, registration_data, incoming, acc, field) ==
    IF SkippedForDevice(dtype, field) THEN acc
    ELSE LET registered == Get(registration_data, field)
             current == Get(incoming, field)
         IN  IF field = "device_imeis"
             THEN CompareImeiField(acc, field, registered, current)
             ELSE IF field = "installed_ram" /\ IsDesktop(dtype)
             THEN CompareRamField(acc, field, registered, current)
             ELSE CompareExactField(acc, field, registered, current)

\* one iteration of "for field in HEARTBEAT_TRACKED_FIELDS"
CompareField(dtype, registration_data, incoming, acc, field) ==
    IF field \notin DOMAIN incoming THEN acc
    ELSE IF SkippedForDevice(dtype, field) THEN acc
    ELSE LET registered == Get(registration_data, field)
             current == Get(incoming, field)
         IN  IF field = "device_imeis"
             THEN CompareImeiField(acc, field, registered, current)
             ELSE IF field = "installed_ram" /\ IsDesktop(dtype)
             THEN CompareRamField(acc, field, registered, current)
             ELSE CompareExactField(acc, field, registered, current)

RECURSIVE CompareLoop(_, _, _, _, _)
CompareLoop(dtype, registration_data, incoming, acc, i) ==
    IF i > Len(HEARTBEAT_TRACKED_FIELDS) THEN acc
    ELSE CompareLoop(dtype, registration_data, incoming,
                     CompareField(dtype, registration_data, incoming, acc,
                                  HEARTBEAT_TRACKED_FIELDS[i]),
                     i + 1)

\* a slip: lock on any mismatch
ShouldAutoLock_AnyMismatch(acc) == Len(acc.mismatches) > 0

\* should_auto_lock = high_severity_count > 0
ShouldAutoLock(acc) == acc.high_severity_count > 0

\* a slip: the reason names every mismatched field, whatever its severity
LockReason_AllMismatches(acc, should_auto_lock) ==
    IF should_auto_lock
    THEN Text("Device security compromised",
              [j \in DOMAIN acc.mismatches |-> acc.mismatches[j].field])
    ELSE None

\* lock_reason: the fields of the high-severity mismatches, joined
LockReason(acc, should_auto_lock) ==
    IF should_auto_lock
    THEN LET high == SelectSeq(acc.mismatches, LAMBDA m : m.severity = "high")
         IN  Text("Device security compromised", [j \in DOMAIN high |-> high[j].field])
    ELSE None

\* the key baseline_status is not in the dict of a comparison that ran
NoKey == "<no key>"

_compare_heartbeat_with_registration(dtype, entry, incoming) ==
    LET registration_data == _get_registration_baseline(entry)
    IN  IF DOMAIN registration_data = {} THEN EmptyResult("not_established")
        ELSE IF ~has_baseline_data(registration_data) THEN EmptyResult("empty_baseline")
        ELSE LET acc == CompareLoop(dtype, registration_data, incoming,
                                    [mismatches |-> <<>>, high_severity_count |-> 0,
                                     medium_severity_count |-> 0,
                                     comparison_details |-> EmptyMap], 1)
                 should_auto_lock == ShouldAutoLock(acc)
             IN  [mismatches |-> acc.mismatches,
                  high_severity_count |-> acc.high_severity_count,
                  medium_severity_count |-> acc.medium_severity_count,
                  total_mismatches |-> Len(acc.mismatches),
                  should_auto_lock |-> should_auto_lock,
                  lock_reason |-> LockReason(acc, should_auto_lock),
                  comparison_details |-> acc.comparison_details,
                  baseline_status |-> NoKey]

----------------------------------------------------------------------------
(* Inputs of the comparison *)

\* the number of fields an incoming field map holds at most
MaxIncoming == 2

DeviceTypes == {"phone", "tablet", "laptop", "desktop", "other"}

S(chars) == StrV(chars)

ImeiA == S(<<"A">>)
ImeiB == S(<<"B">>)
ImeiC == S(<<"C">>)

Ram16 == S(<<"1", "6", " ", "G", "B">>)
Ram8 == S(<<"8", " ", "G", "B">>)

FullBaseline ==
    [device_imeis |-> ListV(<<ImeiA, ImeiB>>),
     serial_number |-> S(<<"X", "1">>),
     installed_ram |-> Ram16,
     total_storage |-> S(<<"6", "4", " ", "G", "B">>),
     is_device_rooted |-> BoolV(FALSE),
     is_usb_debugging_enabled |-> BoolV(FALSE),
     is_developer_mode_enabled |-> BoolV(FALSE),
     is_bootloader_unlocked |-> BoolV(FALSE),
     is_custom_rom |-> BoolV(FALSE),
     model |-> S(<<"M", "1">>)]

\* a baseline entry whose values are all None, "" or []
BlankBaseline ==
    [device_imeis |-> ListV(<<>>), serial_number |-> S(<<>>), installed_ram |-> None]

\* a baseline entry that holds none of the tracked fields
UntrackedBaseline == [model |-> S(<<"M", "1">>)]

BaselineRams ==
    {Ram8, S(<<"8", ".", "3", " ", "G", "B">>), S(<<"1", "6">>), None}

BaselineImeis == {ListV(<<ImeiA>>), ListV(<<>>)}

Baselines ==
    {NoEntry, Entry(EmptyMap), Entry(BlankBaseline), Entry(UntrackedBaseline),
     Entry(FullBaseline)}
    \cup {Entry([FullBaseline EXCEPT !.installed_ram = r]) : r \in BaselineRams}
    \cup {Entry([FullBaseline EXCEPT !.device_imeis = l]) : l \in BaselineImeis}

IncomingFields == Range(HEARTBEAT_TRACKED_FIELDS) \cup {"model"}

IncomingValues(field) ==
    CASE field = "device_imeis" ->
            {ListV(<<ImeiA, ImeiB>>), ListV(<<ImeiB, ImeiA>>), ListV(<<ImeiA>>),
             ListV(<<S(<<" ", "a", " ">>)>>), ListV(<<ImeiA, ImeiC>>), ListV(<<>>)}
      [] field = "serial_number" ->
            {S(<<"X", "1">>), S(<<" ", "x", "1">>), S(<<"X", "2">>),
             S(<<"X", " ", KelvinSign, "B">>)}
      [] field = "installed_ram" ->
            {Ram16, S(<<"1", "6", "G", "B">>), S(<<"1", "5", " ", "g", "b">>),
             S(<<"1", "4", ".", "9", " ", "G", "B">>), Ram8,
             S(<<"7", ".", "5", " ", "G", "B">>), S(<<"7", ".", "3", " ", "G", "B">>),
             S(<<"6", ".", "9", " ", "G", "B">>), S(<<"1", "6">>), S(<<>>), IntV(4)}
      [] field = "total_storage" ->
            {S(<<"6", "4", " ", "G", "B">>), S(<<"6", "4", "g", "b">>),
             S(<<"3", "2", " ", "G", "B">>)}
      [] field = "model" -> {S(<<"M", "2">>)}
      [] OTHER -> {BoolV(FALSE), BoolV(TRUE)}

----------------------------------------------------------------------------
(* The comparison as a state machine: pick the inputs, call the function *)

NoResult == None
NoResponse == None

\* a Device row of a loaned device that is not installed yet; timestamps are 0
\* for None, and "None" is no recovery key
DeviceRow(is_online, deactivate_requested, deactivated_at) ==
    [is_online |-> is_online, last_seen_at |-> 0, loan_status |-> "loaned",
     deactivate_requested |-> deactivate_requested, deactivated_at |-> deactivated_at,
     disk_recovery_key |-> "None", installation_completed |-> FALSE,
     installation_completed_at |-> 0]

\* a DeviceHistory row written by create_history_entry
HistoryRow(req, action) == [req |-> req, action |-> action]

\* the persisted records before any request
SysInit ==
    /\ management = [exists |-> FALSE, is_locked |-> FALSE, block_reason |-> None,
                     blocked_at |-> 0]
    /\ snapshots = EmptyMap
    /\ signals = {}
    /\ history = {}
    /\ requests = EmptyMap
    /\ device = DeviceRow(FALSE, FALSE, 0)
    /\ calls = 0

CmpInit ==
    /\ device_type \in DeviceTypes
    /\ create_entry \in Baselines
    /\ validated_data = EmptyMap
    /\ register_data = EmptyMap
    /\ incoming_data = EmptyMap
    /\ result = NoResult
    /\ SysInit
    /\ loans = {}
    /\ response_data = NoResponse

\* the agent's normalized payload holds one more field
SetIncoming(field, value) ==
    /\ result = NoResult
    /\ field \notin DOMAIN incoming_data
    /\ Cardinality(DOMAIN incoming_data) < MaxIncoming
    /\ incoming_data' = With(incoming_data, field, value)
    /\ UNCHANGED <<validated_data, register_data, device_type, create_entry, result>>
    /\ UNCHANGED <<sysVars, rspVars>>

\* comparison_result = _compare_heartbeat_with_registration(device, incoming_data)
Compare ==
    /\ result = NoResult
    /\ result' = _compare_heartbeat_with_registration(device_type, create_entry,
                                                      incoming_data)
    /\ UNCHANGED <<validated_data, register_data, device_type, create_entry, incoming_data>>
    /\ UNCHANGED <<sysVars, rspVars>>

CmpNext ==
    \/ \E field \in IncomingFields : \E value \in IncomingValues(field) :
           SetIncoming(field, value)
    \/ Compare

SpecCompare == CmpInit /\ [][CmpNext]_vars

----------------------------------------------------------------------------
(* _normalize_mobile_heartbeat *)

\* data.get(wrapper) or {}
Wrapper(data, name) == PyOr(Get(data, name), DictV(EmptyMap)).v

\* the value at a source: <<"", key>> is data.get(key), <<wrapper, key>> is
\* wrapper.get(key)
Lookup(data, src) ==
    IF src[1] = "" THEN Get(data, src[2]) ELSE Get(Wrapper(data, src[1]), src[2])

\* normalized[key] = first or second; a rule without second is a plain data.get
Rule(key, first, second) == [key |-> key, first |-> first, second |-> second]

NormalizeRules ==
    <<Rule("android_id", <<"", "android_id">>, <<>>),
      Rule("model", <<"", "model">>, <<>>),
      Rule("manufacturer", <<"", "manufacturer">>, <<>>),
      Rule("serial_number", <<"", "serial">>, <<"", "serial_number">>),
      Rule("device_fingerprint", <<"", "fingerprint">>, <<>>),
      Rule("bootloader", <<"", "bootloader">>, <<>>),
      Rule("os_version", <<"", "os_version">>, <<"android_info", "version_release">>),
      Rule("os_edition", <<"", "os_edition">>, <<"android_info", "version_incremental">>),
      Rule("sdk_version", <<"", "sdk_version">>, <<"android_info", "version_sdk_int">>),
      Rule("security_patch_level", <<"", "security_patch_level">>,
           <<"android_info", "security_patch">>),
      Rule("latitude", <<"", "latitude">>, <<"location_info", "latitude">>),
      Rule("longitude", <<"", "longitude">>, <<"location_info", "longitude">>),
      Rule("installed_apps_hash", <<"", "installed_apps_hash">>,
           <<"system_integrity", "installed_apps_hash">>),
      Rule("system_properties_hash", <<"", "system_properties_hash">>,
           <<"system_integrity", "system_properties_hash">>),
      Rule("is_device_rooted", <<"", "is_device_rooted">>,
           <<"security_info", "is_device_rooted">>),
      Rule("is_usb_debugging_enabled", <<"", "is_usb_debugging_enabled">>,
           <<"security_info", "is_usb_debugging_enabled">>),
      Rule("is_developer_mode_enabled", <<"", "is_developer_mode_enabled">>,
           <<"security_info", "is_developer_mode_enabled">>),
      Rule("is_bootloader_unlocked", <<"", "is_bootloader_unlocked">>,
           <<"security_info", "is_bootloader_unlocked">>),
      Rule("is_custom_rom", <<"", "is_custom_rom">>, <<"security_info", "is_custom_rom">>),
      Rule("battery_level", <<"", "battery_level">>, <<>>)>>

RuleValue(data, rule) ==
    IF rule.second = <<>> THEN Lookup(data, rule.first)
    ELSE PyOr(Lookup(data, rule.first), Lookup(data, rule.second))

\* installed_ram and total_storage: set only when truthy, str(value) without spaces
SizeValue(data, key) ==
    LET value == PyOr(Get(data, key), Get(Wrapper(data, "storage_info"), key))
    IN  IF Truthy(value) THEN StrV(RemoveSpaces(PyStr(value))) ELSE None

NO_IMEI_FOUND ==
    StrV(<<"N", "O", "_", "I", "M", "E", "I", "_", "F", "O", "U", "N", "D">>)

\* device_imeis: a list in every case
ImeiValue(data) ==
    LET device_imeis ==
            PyOr(Get(data, "device_imeis"), Get(Wrapper(data, "imei_info"), "device_imeis"))
    IN  IF device_imeis # None
        THEN IF device_imeis.k = "str" THEN ListV(<<device_imeis>>)
             ELSE IF device_imeis.k = "list"
             THEN IF Truthy(device_imeis) THEN device_imeis ELSE ListV(<<NO_IMEI_FOUND>>)
             ELSE ListV(<<StrV(PyStr(device_imeis))>>)
        ELSE ListV(<<NO_IMEI_FOUND>>)

\* the first value returned (normalized); the second (extra) only goes into the
\* notes of the audit entry
_normalize_mobile_heartbeat(data) ==
    LET ruleKeys == {NormalizeRules[i].key : i \in DOMAIN NormalizeRules}
        ruleOf(key) == NormalizeRules[CHOOSE i \in DOMAIN NormalizeRules :
                                          NormalizeRules[i].key = key]
        sizeKeys == {key \in {"installed_ram", "total_storage"} :
                        SizeValue(data, key) # None}
        normalized ==
            [key \in ruleKeys \cup sizeKeys \cup {"device_imeis"} |->
                IF key = "device_imeis" THEN ImeiValue(data)
                ELSE IF key \in sizeKeys THEN SizeValue(data, key)
                ELSE RuleValue(data, ruleOf(key))]
        kept == {key \in DOMAIN normalized :
                    normalized[key] # None /\ normalized[key] # StrV(<<>>)}
    IN  [key \in kept |-> normalized[key]]

----------------------------------------------------------------------------
(* _normalize_mobile_payload (the registration of a phone or tablet) *)

MOBILE_BASE_FIELDS ==
    {"device_id", "loan_number", "device_type", "manufacturer", "model", "platform",
     "system_type", "os_version", "os_edition", "processor", "installed_ram",
     "total_storage", "build_number", "sdk_version", "system_uptime",
     "installed_apps_hash", "system_properties_hash", "tamper_severity",
     "tamper_flags", "battery_level", "language", "latitude", "longitude",
     "android_id", "bootloader", "security_patch_level"}

\* the module's MOBILE_ONLY_FIELDS; the comparison has a local set of the same name
MODULE_MOBILE_ONLY_FIELDS ==
    {"device_imeis", "serial_number", "machine_name", "device_fingerprint",
     "is_device_rooted", "is_usb_debugging_enabled", "is_developer_mode_enabled",
     "is_bootloader_unlocked", "is_custom_rom"}

\* device_info = data.get("device_info") or data.get("device_data") or {}
PayloadWrapper(data, name) ==
    IF name = "device_info"
    THEN PyOr(PyOr(Get(data, "device_info"), Get(data, "device_data")),
              DictV(EmptyMap)).v
    ELSE Wrapper(data, name)

PayloadLookup(data, src) ==
    IF src[1] = "" THEN Get(data, src[2]) ELSE Get(PayloadWrapper(data, src[1]), src[2])

\* a or b or ... : the first value that is true, the last one when none is
OrChain(values) ==
    LET truthy == {i \in DOMAIN values : Truthy(values[i])}
    IN  IF truthy = {} THEN values[Len(values)]
        ELSE values[CHOOSE i \in truthy : \A j \in truthy : i <= j]

\* normalized[key] = source or source or ...
Chain(key, sources) == [key |-> key, sources |-> sources]

PayloadRules ==
    <<Chain("loan_number", <<<<"", "loan_number">>, <<"device_info", "loan_number">>,
                             <<"registration_info", "loan_number">>>>),
      Chain("device_id", <<<<"", "device_id">>, <<"device_info", "device_id">>>>),
      Chain("android_id", <<<<"", "android_id">>, <<"device_info", "android_id">>,
                            <<"device_info", "device_id">>>>),
      Chain("model", <<<<"", "model">>, <<"device_info", "model">>>>),
      Chain("manufacturer", <<<<"", "manufacturer">>, <<"device_info", "manufacturer">>>>),
      Chain("platform", <<<<"", "platform">>, <<"device_info", "hardware">>,
                          <<"", "hardware">>>>),
      Chain("system_type", <<<<"", "system_type">>, <<"device_info", "device">>,
                             <<"", "device">>>>),
      Chain("os_version", <<<<"", "os_version">>, <<"", "android_version">>,
                            <<"android_info", "version_release">>>>),
      Chain("os_edition", <<<<"", "os_edition">>, <<"android_info", "version_incremental">>>>),
      Chain("processor", <<<<"", "processor">>, <<"device_info", "hardware">>,
                           <<"", "hardware">>>>),
      Chain("build_number", <<<<"", "build_number">>>>),
      Chain("sdk_version", <<<<"", "sdk_version">>, <<"android_info", "version_sdk_int">>>>),
      Chain("device_fingerprint", <<<<"", "device_fingerprint">>,
                                    <<"device_info", "fingerprint">>, <<"", "fingerprint">>>>),
      Chain("bootloader", <<<<"", "bootloader">>, <<"device_info", "bootloader">>>>),
      Chain("security_patch_level", <<<<"", "security_patch_level">>,
                                      <<"android_info", "security_patch">>>>),
      Chain("system_uptime", <<<<"", "system_uptime">>>>),
      Chain("installed_apps_hash", <<<<"", "installed_apps_hash">>,
                                     <<"system_integrity", "installed_apps_hash">>>>),
      Chain("system_properties_hash", <<<<"", "system_properties_hash">>,
                                        <<"system_integrity", "system_properties_hash">>>>),
      Chain("is_device_rooted", <<<<"", "is_device_rooted">>,
                                  <<"security_info", "is_device_rooted">>>>),
      Chain("is_usb_debugging_enabled", <<<<"", "is_usb_debugging_enabled">>,
                                          <<"security_info", "is_usb_debugging_enabled">>>>),
      Chain("is_developer_mode_enabled", <<<<"", "is_developer_mode_enabled">>,
                                           <<"security_info", "is_developer_mode_enabled">>>>),
      Chain("is_bootloader_unlocked", <<<<"", "is_bootloader_unlocked">>,
                                        <<"security_info", "is_bootloader_unlocked">>>>),
      Chain("is_custom_rom", <<<<"", "is_custom_rom">>, <<"security_info", "is_custom_rom">>>>),
      Chain("latitude", <<<<"", "latitude">>, <<"location_info", "latitude">>>>),
      Chain("longitude", <<<<"", "longitude">>, <<"location_info", "longitude">>>>),
      Chain("battery_level", <<<<"", "battery_level">>>>),
      Chain("language", <<<<"", "language">>>>),
      Chain("serial_number", <<<<"", "serial_number">>, <<"", "serial">>,
                               <<"device_info", "serial">>>>),
      Chain("machine_name", <<<<"", "machine_name">>, <<"device_info", "machine_name">>>>)>>

ChainValue(data, chain) ==
    OrChain([i \in DOMAIN chain.sources |-> PayloadLookup(data, chain.sources[i])])

\* imeis = data.get("device_imeis") or data.get("imeis") or device_info.get("imeis")
\*         or imei_info.get("device_imeis"), then a list in every case
PayloadImeiValue(data) ==
    LET imeis == OrChain(<<Get(data, "device_imeis"), Get(data, "imeis"),
                           Get(PayloadWrapper(data, "device_info"), "imeis"),
                           Get(PayloadWrapper(data, "imei_info"), "device_imeis")>>)
    IN  IF imeis # None
        THEN IF imeis.k = "str" THEN ListV(<<imeis>>)
             ELSE IF imeis.k = "list"
             THEN IF Truthy(imeis) THEN imeis ELSE ListV(<<NO_IMEI_FOUND>>)
             ELSE ListV(<<StrV(PyStr(imeis))>>)
        ELSE ListV(<<NO_IMEI_FOUND>>)

_normalize_mobile_payload(data) ==
    LET chainKeys == {PayloadRules[i].key : i \in DOMAIN PayloadRules}
        chainOf(key) == PayloadRules[CHOOSE i \in DOMAIN PayloadRules :
                                         PayloadRules[i].key = key]
        sizeKeys == {key \in {"installed_ram", "total_storage"} :
                        SizeValue(data, key) # None}
        assigned == chainKeys \cup sizeKeys \cup {"device_imeis"}
        \* for key in MOBILE_BASE_FIELDS | MOBILE_ONLY_FIELDS: sent and not yet set
        flatKeys == {key \in (MOBILE_BASE_FIELDS \cup MODULE_MOBILE_ONLY_FIELDS) \ assigned :
                        key \in DOMAIN data}
        normalized ==
            [key \in assigned \cup flatKeys |->
                IF key = "device_imeis" THEN PayloadImeiValue(data)
                ELSE IF key \in sizeKeys THEN SizeValue(data, key)
                ELSE IF key \in flatKeys THEN Get(data, key)
                ELSE ChainValue(data, chainOf(key))]
        kept == {key \in DOMAIN normalized :
                    normalized[key] # None /\ normalized[key] # StrV(<<>>)}
    IN  [key \in kept |-> normalized[key]]

----------------------------------------------------------------------------
(* The normalizers as a state machine: the agent's payload, the heartbeat
   normalizer, the registration normalizer, then the comparison of post() *)

\* a key the agent did not send
Absent == [k |-> "absent"]

Opt(data, key, value) == IF value = Absent THEN data ELSE With(data, key, value)

OptDict(data, wrapper, key, value) ==
    IF value = Absent THEN data ELSE With(data, wrapper, DictV(With(EmptyMap, key, value)))

FlatImeis ==
    {Absent, None, ListV(<<>>), ListV(<<ImeiA>>), ListV(<<ImeiA, ImeiB>>),
     ListV(<<ImeiA, ImeiC>>), ImeiA}
NestedImeis == {Absent, ListV(<<>>), ListV(<<ImeiB>>)}
FlatFlags == {Absent, BoolV(FALSE), BoolV(TRUE)}
NestedFlags == {Absent, BoolV(FALSE), BoolV(TRUE)}
FlatLatitudes == {Absent, IntV(0), IntV(7)}
NestedLatitudes == {Absent, IntV(5)}
DeviceDataSerials == {Absent, S(<<"X", "1">>)}

AgentPayload(imeis, nestedImeis, rooted, nestedRooted, latitude, nestedLatitude, serial) ==
    OptDict(OptDict(OptDict(OptDict(
        Opt(Opt(Opt(EmptyMap, "device_imeis", imeis), "is_device_rooted", rooted),
            "latitude", latitude),
        "imei_info", "device_imeis", nestedImeis),
        "security_info", "is_device_rooted", nestedRooted),
        "location_info", "latitude", nestedLatitude),
        "device_data", "serial", serial)

AgentPayloads ==
    {AgentPayload(i, ni, r, nr, l, nl, s) :
        i \in FlatImeis, ni \in NestedImeis, r \in FlatFlags, nr \in NestedFlags,
        l \in FlatLatitudes, nl \in NestedLatitudes, s \in DeviceDataSerials}

NormalizeDeviceTypes == {"phone", "tablet", "laptop"}

NormalizeBaselines ==
    {Entry(FullBaseline),
     Entry([FullBaseline EXCEPT !.device_imeis = ListV(<<ImeiA>>)]),
     Entry([FullBaseline EXCEPT !.device_imeis = ListV(<<NO_IMEI_FOUND>>)])}

NormInit ==
    /\ device_type \in NormalizeDeviceTypes
    /\ create_entry \in NormalizeBaselines
    /\ validated_data \in AgentPayloads
    /\ register_data = EmptyMap
    /\ incoming_data = EmptyMap
    /\ result = NoResult
    /\ SysInit
    /\ loans = {}
    /\ response_data = NoResponse

\* incoming_data, extra_data = _normalize_mobile_heartbeat(serializer.validated_data)
NormalizeHeartbeat ==
    /\ incoming_data = EmptyMap
    /\ incoming_data' = _normalize_mobile_heartbeat(validated_data)
    /\ UNCHANGED <<validated_data, register_data, device_type, create_entry, result>>
    /\ UNCHANGED <<sysVars, rspVars>>

\* payload = _normalize_mobile_payload(request.data)
NormalizePayload ==
    /\ register_data = EmptyMap
    /\ register_data' = _normalize_mobile_payload(validated_data)
    /\ UNCHANGED <<validated_data, incoming_data, device_type, create_entry, result>>
    /\ UNCHANGED <<sysVars, rspVars>>

\* post() compares what the normalizer returned
CompareHeartbeat ==
    /\ incoming_data # EmptyMap
    /\ Compare

NormNext ==
    \/ NormalizeHeartbeat
    \/ NormalizePayload
    \/ CompareHeartbeat

SpecNormalize == NormInit /\ [][NormNext]_vars

----------------------------------------------------------------------------
(* Loans of the device, as the response is built from them *)

\* timezone.now().date(); due dates are days relative to it
Today == 0

Payment(installment_number, due_date, status) ==
    [installment_number |-> installment_number, due_date |-> due_date,
     status |-> status]
Loan(id, loan_number, status, payments) ==
    [id |-> id, loan_number |-> loan_number, status |-> status, payments |-> payments]

UnpaidStatuses == {"pending", "partial", "overdue"}

\* Loan.objects.filter(device=device, status__in=statuses)
LoansWith(rows, statuses) == {loan \in rows : loan.status \in statuses}

\* .first(): the matching row of lowest primary key, NoLoan when there is none
NoLoan == Loan(0, "", "", {})
First(rows) ==
    IF rows = {} THEN NoLoan
    ELSE CHOOSE loan \in rows : \A other \in rows : loan.id <= other.id

\* LoanPayment.objects.filter(loan=loan, due_date__lt=today,
\*                            status__in=[...]).exists()
HasOverdue(rows) ==
    LET loan == First(LoansWith(rows, {"active"}))
    IN  /\ loan # NoLoan
        /\ \E payment \in loan.payments :
               payment.due_date < Today /\ payment.status \in UnpaidStatuses

\* _get_next_payment_info: the next unpaid installment of the approved or active
\* loan, None when there is none. The unlock password is generated per call.
_get_next_payment_info(rows) ==
    LET loan == First(LoansWith(rows, {"approved", "active"}))
        unpaid == IF loan = NoLoan THEN {}
                  ELSE {payment \in loan.payments : payment.status \in UnpaidStatuses}
    IN  IF unpaid = {} THEN None
        ELSE LET next_installment ==
                     CHOOSE payment \in unpaid :
                         \A other \in unpaid :
                             \/ payment.due_date < other.due_date
                             \/ /\ payment.due_date = other.due_date
                                /\ payment.installment_number <= other.installment_number
             IN  [date_time |-> next_installment.due_date,
                  unlock_password |-> "generated"]

\* what _auto_request_deactivation_for_completed_loan returns
NoDeactivation == [should_deactivate |-> FALSE, reason |-> "None", loan_number |-> "None"]

CompletedLoan(rows) ==
    IF LoansWith(rows, {"draft", "pending", "approved", "active"}) # {} THEN NoLoan
    ELSE First(LoansWith(rows, {"completed"}))

DeactivationMeta(rows) ==
    IF CompletedLoan(rows) = NoLoan THEN NoDeactivation
    ELSE [should_deactivate |-> TRUE, reason |-> "loan_completed",
          loan_number |-> CompletedLoan(rows).loan_number]

\* the flag is set when a loan is completed, none is open, and the Device
\* instance is neither deactivated nor asked to deactivate
AutoRequests(rows, dev) ==
    /\ CompletedLoan(rows) # NoLoan
    /\ dev.deactivated_at = 0
    /\ ~dev.deactivate_requested

----------------------------------------------------------------------------
(* _build_device_response *)

\* a slip: only the completed loan asks for the deactivation, the device's
\* flag is not read
DeactivationBlock_MetaOnly(deactivate_requested, deactivation_meta) ==
    IF deactivation_meta.should_deactivate
    THEN [status |-> "requested", command |-> "DEACTIVATE_NOW"]
    ELSE [status |-> "none"]

\* the deactivation block
DeactivationBlock(deactivate_requested, deactivation_meta) ==
    LET deactivation_requested == deactivate_requested \/ deactivation_meta.should_deactivate
        status == [status |-> IF deactivation_requested THEN "requested" ELSE "none"]
        command == IF deactivation_requested
                   THEN With(status, "command", "DEACTIVATE_NOW") ELSE status
        completed == deactivation_requested /\ deactivation_meta.reason = "loan_completed"
        reason == IF completed
                  THEN With(With(command, "reason", "loan_completed"),
                            "agent_notice", "Time to remove the device agent.")
                  ELSE command
    IN  IF completed /\ deactivation_meta.loan_number # "None"
        THEN With(reason, "loan_number", deactivation_meta.loan_number)
        ELSE reason

\* a slip: the security reason is tested before the overdue payment
ContentBlock_SecurityFirst(is_locked, has_overdue, high_count) ==
    IF is_locked
    THEN IF high_count > 0 THEN [is_locked |-> TRUE, reason |-> "Security issue"]
         ELSE [is_locked |-> TRUE, reason |-> "Payment overdue"]
    ELSE [is_locked |-> FALSE]

\* the content block
ContentBlock(is_locked, has_overdue, high_count) ==
    IF is_locked
    THEN IF has_overdue THEN [is_locked |-> TRUE, reason |-> "Payment overdue"]
         ELSE IF high_count > 0 THEN [is_locked |-> TRUE, reason |-> "Security issue"]
         ELSE [is_locked |-> TRUE, reason |-> "Payment overdue"]
    ELSE [is_locked |-> FALSE]

\* a slip: the response carries the mismatches of the comparison
_build_device_response_WithMismatches(is_locked, deactivate_requested, rows, comparison_result, deactivation_meta) ==
    [success |-> TRUE,
     message |-> "Heartbeat processed successfully",
     content |-> With(ContentBlock(is_locked, HasOverdue(rows),
                                   comparison_result.high_severity_count),
                      "mismatches", comparison_result.mismatches),
     server_time |-> Today,
     deactivation |-> DeactivationBlock(deactivate_requested, deactivation_meta)]

\* is_locked is device.is_locked, deactivate_requested the attribute of the
\* Device instance, rows the loans of the device
_build_device_response(is_locked, deactivate_requested, rows, comparison_result, deactivation_meta) ==
    LET next_payment == _get_next_payment_info(rows)
        response ==
            [success |-> TRUE,
             message |-> "Heartbeat processed successfully",
             content |-> ContentBlock(is_locked, HasOverdue(rows),
                                      comparison_result.high_severity_count),
             server_time |-> Today,
             deactivation |-> DeactivationBlock(deactivate_requested, deactivation_meta)]
    IN  IF next_payment # None THEN With(response, "next_payment", next_payment)
        ELSE response

----------------------------------------------------------------------------
(* The response of one heartbeat: the comparison of a payload, then lines      *)
(* 2315-2321 of post() on a device in some lock, loan and deactivation state   *)

LoanConfigs ==
    {{},
     {Loan(1, "L1", "active", {Payment(1, -1, "pending")})},
     {Loan(1, "L1", "active", {Payment(1, 0, "pending")})},
     {Loan(1, "L1", "active", {Payment(1, -1, "paid"), Payment(2, 1, "partial")})},
     {Loan(1, "L1", "approved", {Payment(1, -1, "overdue")})},
     {Loan(1, "L1", "completed", {Payment(1, -1, "paid")})},
     {Loan(1, "L1", "completed", {Payment(1, -1, "paid")}),
      Loan(2, "L2", "active", {Payment(1, -1, "partial")})}}

\* deactivate_requested and deactivated_at of a Device row: not asked, asked,
\* confirmed
DeactivationStates == {<<FALSE, 0>>, <<TRUE, 0>>, <<FALSE, 1>>}

RespDeviceTypes == {"phone", "desktop"}
RespBaselines == {Entry(FullBaseline), NoEntry}
RespFields == {"is_device_rooted", "total_storage", "serial_number"}

RespInit ==
    /\ device_type \in RespDeviceTypes
    /\ create_entry \in RespBaselines
    /\ validated_data = EmptyMap
    /\ register_data = EmptyMap
    /\ incoming_data = EmptyMap
    /\ result = NoResult
    /\ \E is_locked \in BOOLEAN :
           management = [exists |-> TRUE, is_locked |-> is_locked,
                         block_reason |-> None, blocked_at |-> 0]
    /\ \E state \in DeactivationStates : device = DeviceRow(TRUE, state[1], state[2])
    /\ loans \in LoanConfigs
    /\ snapshots = EmptyMap
    /\ signals = {}
    /\ history = {}
    /\ requests = EmptyMap
    /\ calls = 0
    /\ response_data = NoResponse

\* deactivation_meta = _auto_request_deactivation_for_completed_loan(device)
\* response_data = _build_device_response(device, comparison_result, ...)
BuildResponse ==
    /\ result # NoResult
    /\ response_data = NoResponse
    /\ device' = IF AutoRequests(loans, device)
                 THEN [device EXCEPT !.deactivate_requested = TRUE] ELSE device
    /\ history' = IF AutoRequests(loans, device)
                  THEN history \cup {HistoryRow(0, "deactivation_requested")}
                  ELSE history
    /\ response_data' = _build_device_response(management.is_locked,
                                               device'.deactivate_requested, loans,
                                               result, DeactivationMeta(loans))
    /\ UNCHANGED <<management, snapshots, signals, requests, loans, calls>>
    /\ UNCHANGED cmpVars

RespNext ==
    \/ \E field \in RespFields : \E value \in IncomingValues(field) :
           SetIncoming(field, value)
    \/ Compare
    \/ BuildResponse

SpecResponse == RespInit /\ [][RespNext]_vars

----------------------------------------------------------------------------
(* DeviceManagement.lock_device / unlock_device, as their callers use them:    *)
(* the call reports FALSE and changes nothing when the device is already in    *)
(* the state asked for.                                                        *)

lock_device(mgmt) ==
    [success |-> ~mgmt.is_locked, mgmt |-> [mgmt EXCEPT !.is_locked = TRUE]]

unlock_device(mgmt) ==
    [success |-> mgmt.is_locked, mgmt |-> [mgmt EXCEPT !.is_locked = FALSE]]

\* DeviceManagement.objects.create(device=device) when the device has no row
EnsuredManagement(mgmt) == [mgmt EXCEPT !.exists = TRUE]

----------------------------------------------------------------------------
(* DeviceDataPostView.post: one request is a sequence of reads and writes of   *)
(* the store; requests of concurrent heartbeats interleave between them.       *)

\* heartbeat requests the model runs, and writes of the store it lets fail
MaxRequests == 2
MaxFaults == 1

RequestIds == 1..MaxRequests

\* agent payloads: matching the baseline, a storage change (medium) with one IMEI
\* less, a rooted device (high) reported in security_info
Storage32 == S(<<"3", "2", " ", "G", "B">>)

PayloadMatching ==
    [device_imeis |-> ListV(<<ImeiA, ImeiB>>), serial |-> S(<<"X", "1">>),
     security_info |-> DictV([is_custom_rom |-> BoolV(FALSE)])]
PayloadStorage ==
    [device_imeis |-> ListV(<<ImeiA>>),
     storage_info |-> DictV([total_storage |-> Storage32])]
PayloadRooted ==
    [imei_info |-> DictV([device_imeis |-> ListV(<<ImeiB, ImeiA>>)]),
     security_info |-> DictV([is_device_rooted |-> BoolV(TRUE)])]

Payloads == {PayloadMatching, PayloadStorage, PayloadRooted}

\* the steps of post() after the device is loaded, by the write they are about to make
TrySteps == {"management", "block_reason", "lock", "backfill", "tamper_signal"}

Req(r) == requests[r]
InFlight(r) == r \in DOMAIN requests /\ Req(r).pc # "done"
At(r, pc) == r \in DOMAIN requests /\ Req(r).pc = pc

RECURSIVE FaultsUpTo(_)
FaultsUpTo(n) ==
    IF n = 0 THEN 0
    ELSE FaultsUpTo(n - 1)
         + (IF n \in DOMAIN requests THEN Cardinality(Req(n).failed) ELSE 0)
Faults == FaultsUpTo(MaxRequests)

Goto(r, pc) == requests' = [requests EXCEPT ![r].pc = pc]

\* device.refresh_from_db() after the management record was created: the
\* instance takes the row's values; then post() goes on at pc
Refreshed(r, pc) ==
    IF management.exists THEN [Req(r) EXCEPT !.pc = pc]
    ELSE [Req(r) EXCEPT !.pc = pc,
                        !.loaded_locked = management.is_locked,
                        !.deactivate_requested = device.deactivate_requested,
                        !.deactivated_at = device.deactivated_at]

\* device = get_object_or_404(...); incoming_data = _normalize_mobile_heartbeat(...)
\* The Device instance holds what the row held when it was loaded: loaded_locked,
\* deactivate_requested and deactivated_at of the request are its attributes.
Start(r, payload) ==
    /\ r \notin DOMAIN requests
    /\ r = Cardinality(DOMAIN requests) + 1
    /\ requests' = With(requests, r,
                        [pc |-> "save_device",
                         incoming |-> _normalize_mobile_heartbeat(payload),
                         cmp |-> NoResult,
                         loaded_locked |-> management.is_locked,
                         deactivate_requested |-> device.deactivate_requested,
                         deactivated_at |-> device.deactivated_at,
                         saw_locked |-> FALSE,
                         moved_to_locked |-> FALSE,
                         failed |-> {},
                         deactivation_meta |-> NoDeactivation,
                         response |-> "none",
                         response_data |-> NoResponse])
    /\ UNCHANGED <<management, snapshots, signals, history, device>>
    /\ UNCHANGED <<cmpVars, rspVars, calls>>

\* device.save(update_fields=[...]) and the comparison with the baseline
SaveDevice(r) ==
    /\ At(r, "save_device")
    /\ device' = [device EXCEPT !.is_online = TRUE, !.last_seen_at = r]
    /\ requests' = [requests EXCEPT
           ![r].pc = "snapshot",
           ![r].cmp = _compare_heartbeat_with_registration(device_type, create_entry,
                                                           Req(r).incoming)]
    /\ UNCHANGED <<management, snapshots, signals, history>>
    /\ UNCHANGED <<cmpVars, rspVars, calls>>

\* DeviceHeartbeatHistory.objects.create(...)
CreateSnapshot(r) ==
    /\ At(r, "snapshot")
    /\ snapshots' = With(snapshots, r,
           [heartbeat_data |-> Req(r).incoming,
            comparison_result |->
                [mismatches |-> Req(r).cmp.mismatches,
                 comparison_details |-> Req(r).cmp.comparison_details,
                 high_severity_count |-> Req(r).cmp.high_severity_count,
                 medium_severity_count |-> Req(r).cmp.medium_severity_count,
                 total_mismatches |-> Req(r).cmp.total_mismatches],
            mismatches_detected |-> Req(r).cmp.total_mismatches > 0,
            high_severity_count |-> Req(r).cmp.high_severity_count,
            medium_severity_count |-> Req(r).cmp.medium_severity_count,
            auto_locked |-> FALSE,
            lock_reason |-> None])
    /\ Goto(r, "history")
    /\ UNCHANGED <<management, signals, history, device>>
    /\ UNCHANGED <<cmpVars, rspVars, calls>>

\* a slip: the audit entry of a heartbeat is written as a "create" entry
CreateHistory_AsCreate(r) ==
    /\ At(r, "history")
    /\ history' = history \cup {HistoryRow(r, "create")}
    /\ Goto(r, "check")
    /\ UNCHANGED <<management, snapshots, signals, device>>
    /\ UNCHANGED <<cmpVars, rspVars, calls>>

\* device.create_history_entry(action=...)
CreateHistory(r) ==
    /\ At(r, "history")
    /\ history' = history \cup
           {HistoryRow(r, IF Req(r).cmp.total_mismatches > 0 THEN "heartbeat_mismatch"
                          ELSE "heartbeat")}
    /\ Goto(r, "check")
    /\ UNCHANGED <<management, snapshots, signals, device>>
    /\ UNCHANGED <<cmpVars, rspVars, calls>>

\* what device.is_locked reads at the auto-lock test: the value loaded with the
\* Device instance, or the row's value now (the attribute is defined outside
\* views.py; either is possible)
DeviceIsLocked(r) == {Req(r).loaded_locked, management.is_locked}

\* a slip: the auto-lock block is passed over once a snapshot records a HIGH mismatch
CheckLock_UnlessRecorded(r) ==
    /\ At(r, "check")
    /\ \E seen \in DeviceIsLocked(r) :
           requests' = [requests EXCEPT
               ![r].saw_locked = seen,
               ![r].pc = IF /\ Req(r).cmp.should_auto_lock
                            /\ ~seen
                            /\ \A q \in DOMAIN snapshots \ {r} :
                                   snapshots[q].high_severity_count = 0
                         THEN "management" ELSE "summary"]
    /\ UNCHANGED <<management, snapshots, signals, history, device>>
    /\ UNCHANGED <<cmpVars, rspVars, calls>>

\* a slip: the auto-lock block is entered whatever the lock state
CheckLock_NoGuard(r) ==
    /\ At(r, "check")
    /\ \E seen \in DeviceIsLocked(r) :
           requests' = [requests EXCEPT
               ![r].saw_locked = seen,
               ![r].pc = IF Req(r).cmp.should_auto_lock THEN "management" ELSE "summary"]
    /\ UNCHANGED <<management, snapshots, signals, history, device>>
    /\ UNCHANGED <<cmpVars, rspVars, calls>>

\* if should_auto_lock and not device.is_locked:
CheckLock(r) ==
    /\ At(r, "check")
    /\ \E seen \in DeviceIsLocked(r) :
           requests' = [requests EXCEPT
               ![r].saw_locked = seen,
               ![r].pc = IF Req(r).cmp.should_auto_lock /\ ~seen
                         THEN "management" ELSE "summary"]
    /\ UNCHANGED <<management, snapshots, signals, history, device>>
    /\ UNCHANGED <<cmpVars, rspVars, calls>>

\* ensure the device has a management record (inside the try block)
LockEnsureManagement(r) ==
    /\ At(r, "management")
    /\ management' = EnsuredManagement(management)
    /\ requests' = [requests EXCEPT ![r] = Refreshed(r, "block_reason")]
    /\ UNCHANGED <<snapshots, signals, history, device>>
    /\ UNCHANGED <<cmpVars, rspVars, calls>>

\* device.management.save(update_fields=['block_reason', 'blocked_at'])
SaveBlockReason(r) ==
    /\ At(r, "block_reason")
    /\ management' = [management EXCEPT !.block_reason = Req(r).cmp.lock_reason,
                                        !.blocked_at = r]
    /\ Goto(r, "lock")
    /\ UNCHANGED <<snapshots, signals, history, device>>
    /\ UNCHANGED <<cmpVars, rspVars, calls>>

\* a slip: the lock call toggles the lock
LockDevice_Toggle(r) ==
    /\ At(r, "lock")
    /\ management' = [management EXCEPT !.is_locked = ~management.is_locked]
    /\ requests' = [requests EXCEPT ![r].pc = "backfill",
                                    ![r].moved_to_locked = ~management.is_locked]
    /\ UNCHANGED <<snapshots, signals, history, device>>
    /\ UNCHANGED <<cmpVars, rspVars, calls>>

\* device.management.lock_device(locked_by=None, request=request); what it returns
\* is dropped by post(), the model keeps it in moved_to_locked
LockDevice(r) ==
    /\ At(r, "lock")
    /\ management' = lock_device(management).mgmt
    /\ requests' = [requests EXCEPT ![r].pc = "backfill",
                                    ![r].loaded_locked = TRUE,
                                    ![r].moved_to_locked = lock_device(management).success]
    /\ UNCHANGED <<snapshots, signals, history, device>>
    /\ UNCHANGED <<cmpVars, rspVars, calls>>

\* heartbeat_history.save(update_fields=['auto_locked', 'lock_reason'])
BackfillSnapshot(r) ==
    /\ At(r, "backfill")
    /\ snapshots' = [snapshots EXCEPT ![r].auto_locked = TRUE,
                                      ![r].lock_reason = Req(r).cmp.lock_reason]
    /\ Goto(r, "tamper_signal")
    /\ UNCHANGED <<management, signals, history, device>>
    /\ UNCHANGED <<cmpVars, rspVars, calls>>

\* DeviceTemperSignal.objects.create(signal_type="device_tampered", ...)
CreateTamperSignal(r) ==
    /\ At(r, "tamper_signal")
    /\ signals' = signals \cup
           {[req |-> r, signal_type |-> "device_tampered", level |-> "high",
             description |-> Req(r).cmp.lock_reason, auto_action_taken |-> TRUE]}
    /\ Goto(r, "summary")
    /\ UNCHANGED <<management, snapshots, history, device>>
    /\ UNCHANGED <<cmpVars, rspVars, calls>>

\* the signal that summarizes the mismatched fields
SummarySignal(r) ==
    LET res == Req(r).cmp
    IN  [req |-> r,
         signal_type |-> IF res.high_severity_count > 0 THEN "security_breach"
                         ELSE "system_alert",
         level |-> IF res.high_severity_count > 0 THEN "high" ELSE "medium",
         description |-> Text("Device data mismatch detected",
                              [i \in DOMAIN res.mismatches |-> res.mismatches[i].field]),
         auto_action_taken |-> FALSE]

\* a slip: the summary signal is created for HIGH mismatches only
CreateSummarySignal_HighOnly(r) ==
    /\ At(r, "summary")
    /\ signals' = IF Req(r).cmp.high_severity_count > 0
                  THEN signals \cup {SummarySignal(r)} ELSE signals
    /\ Goto(r, "ensure_management")
    /\ UNCHANGED <<management, snapshots, history, device>>
    /\ UNCHANGED <<cmpVars, rspVars, calls>>

\* if total_mismatches > 0: DeviceTemperSignal.objects.create(...)
CreateSummarySignal(r) ==
    /\ At(r, "summary")
    /\ signals' = IF Req(r).cmp.total_mismatches > 0
                  THEN signals \cup {SummarySignal(r)} ELSE signals
    /\ Goto(r, "ensure_management")
    /\ UNCHANGED <<management, snapshots, history, device>>
    /\ UNCHANGED <<cmpVars, rspVars, calls>>

\* ensure the device has a management record (before the response is built)
EnsureManagement(r) ==
    /\ At(r, "ensure_management")
    /\ management' = EnsuredManagement(management)
    /\ requests' = [requests EXCEPT ![r] = Refreshed(r, "auto_deactivate")]
    /\ UNCHANGED <<snapshots, signals, history, device>>
    /\ UNCHANGED <<cmpVars, rspVars, calls>>

\* deactivation_meta = _auto_request_deactivation_for_completed_loan(device):
\* the flag is set on the instance, saved, and an audit entry written
AutoRequestDeactivation(r) ==
    /\ At(r, "auto_deactivate")
    /\ IF AutoRequests(loans, Req(r))
       THEN /\ device' = [device EXCEPT !.deactivate_requested = TRUE]
            /\ history' = history \cup {HistoryRow(r, "deactivation_requested")}
       ELSE UNCHANGED <<device, history>>
    /\ requests' = [requests EXCEPT
           ![r].pc = "respond",
           ![r].deactivate_requested = @ \/ AutoRequests(loans, Req(r)),
           ![r].deactivation_meta = DeactivationMeta(loans)]
    /\ UNCHANGED <<management, snapshots, signals>>
    /\ UNCHANGED <<cmpVars, rspVars, calls>>

\* response_data = _build_device_response(...); return Response(response_data, 200)
Respond(r) ==
    /\ At(r, "respond")
    /\ \E is_locked \in DeviceIsLocked(r) :
           requests' = [requests EXCEPT
               ![r].pc = "done",
               ![r].response = "ok",
               ![r].response_data =
                   _build_device_response(is_locked, Req(r).deactivate_requested, loans,
                                          Req(r).cmp, Req(r).deactivation_meta)]
    /\ UNCHANGED <<management, snapshots, signals, history, device>>
    /\ UNCHANGED <<cmpVars, rspVars, calls>>

\* the step the request is at writes to the store
PendingWrite(r) ==
    \/ Req(r).pc \in {"save_device", "snapshot", "history", "block_reason", "lock",
                      "backfill", "tamper_signal"}
    \/ Req(r).pc \in {"management", "ensure_management"} /\ ~management.exists
    \/ Req(r).pc = "summary" /\ Req(r).cmp.total_mismatches > 0
    \/ Req(r).pc = "auto_deactivate" /\ AutoRequests(loans, Req(r))

\* the write raises. Inside the try block of the auto-lock the exception is caught
\* and post() goes on after the block; inside the deactivation helper it is caught
\* too (the flag is on the instance by then, and in the row when it was the audit
\* entry that raised); anywhere else the outer handler answers 500.
WriteFails(r) ==
    /\ InFlight(r)
    /\ PendingWrite(r)
    /\ Faults < MaxFaults
    /\ requests' = [requests EXCEPT
           ![r].failed = @ \cup {Req(r).pc},
           ![r].pc = CASE Req(r).pc \in TrySteps -> "summary"
                       [] Req(r).pc = "auto_deactivate" -> "respond"
                       [] OTHER -> "done",
           ![r].response = IF Req(r).pc \in TrySteps \cup {"auto_deactivate"}
                           THEN @ ELSE "error",
           ![r].deactivate_requested = @ \/ Req(r).pc = "auto_deactivate"]
    /\ \E saved \in IF Req(r).pc = "auto_deactivate" THEN BOOLEAN ELSE {FALSE} :
           device' = [device EXCEPT !.deactivate_requested = @ \/ saved]
    /\ UNCHANGED <<management, snapshots, signals, history>>
    /\ UNCHANGED <<cmpVars, rspVars, calls>>

----------------------------------------------------------------------------
(* DeviceManagementView.post *)

\* action == 'lock'
ManualLock ==
    /\ management' = lock_device(EnsuredManagement(management)).mgmt
    /\ UNCHANGED <<snapshots, signals, history, requests, device>>
    /\ UNCHANGED <<cmpVars, rspVars, calls>>

\* action == 'unlock'
ManualUnlock ==
    /\ management' = unlock_device(EnsuredManagement(management)).mgmt
    /\ UNCHANGED <<snapshots, signals, history, requests, device>>
    /\ UNCHANGED <<cmpVars, rspVars, calls>>

----------------------------------------------------------------------------
(* Specifications *)

\* the loans of the device: none, or one that is completed
SysLoans == {{}, {Loan(1, "L1", "completed", {Payment(1, -1, "paid")})}}

\* a phone registered with the full baseline
Init ==
    /\ device_type = "phone"
    /\ create_entry = Entry(FullBaseline)
    /\ validated_data = EmptyMap
    /\ register_data = EmptyMap
    /\ incoming_data = EmptyMap
    /\ result = NoResult
    /\ SysInit
    /\ loans \in SysLoans
    /\ response_data = NoResponse

Step(r) ==
    \/ SaveDevice(r)
    \/ CreateSnapshot(r)
    \/ CreateHistory(r)
    \/ CheckLock(r)
    \/ LockEnsureManagement(r)
    \/ SaveBlockReason(r)
    \/ LockDevice(r)
    \/ BackfillSnapshot(r)
    \/ CreateTamperSignal(r)
    \/ CreateSummarySignal(r)
    \/ EnsureManagement(r)
    \/ AutoRequestDeactivation(r)
    \/ Respond(r)
    \/ WriteFails(r)

\* heartbeats of the same device processed concurrently
Next ==
    \/ \E r \in RequestIds : \E payload \in Payloads : Start(r, payload)
    \/ \E r \in RequestIds : Step(r)
    \/ ManualLock
    \/ ManualUnlock

Spec == Init /\ [][Next]_vars

\* heartbeats processed one after the other
NoneInFlight == \A r \in RequestIds : ~InFlight(r)

SeqStart(r, payload) == NoneInFlight /\ Start(r, payload)
SeqManualLock == NoneInFlight /\ ManualLock
SeqManualUnlock == NoneInFlight /\ ManualUnlock

SeqNext ==
    \/ \E r \in RequestIds : \E payload \in Payloads : SeqStart(r, payload)
    \/ \E r \in RequestIds : Step(r)
    \/ SeqManualLock
    \/ SeqManualUnlock

SpecSeq == Init /\ [][SeqNext]_vars

\* heartbeats of a phone or tablet that differ in their IMEI data: both IMEIs, one
\* IMEI less alone, an unknown IMEI, and no IMEI data (absent, null, empty list)
PayloadFewerImeis == [device_imeis |-> ListV(<<ImeiA>>)]
PayloadUnknownImei == [device_imeis |-> ListV(<<ImeiA, ImeiC>>)]
PayloadNoImeiKey == [serial |-> S(<<"X", "1">>)]
PayloadNullImeis == [device_imeis |-> None]
PayloadEmptyImeis == [device_imeis |-> ListV(<<>>)]

ImeiPayloads ==
    {PayloadMatching, PayloadStorage, PayloadFewerImeis, PayloadUnknownImei,
     PayloadNoImeiKey, PayloadNullImeis, PayloadEmptyImeis}

ImeiInit ==
    /\ device_type \in {"phone", "tablet"}
    /\ create_entry = Entry(FullBaseline)
    /\ validated_data = EmptyMap
    /\ register_data = EmptyMap
    /\ incoming_data = EmptyMap
    /\ result = NoResult
    /\ SysInit
    /\ loans = {}
    /\ response_data = NoResponse

ImeiNext ==
    \/ \E r \in RequestIds : \E payload \in ImeiPayloads : SeqStart(r, payload)
    \/ \E r \in RequestIds : Step(r)
    \/ SeqManualLock
    \/ SeqManualUnlock

SpecImei == ImeiInit /\ [][ImeiNext]_vars

\* a device whose HIGH mismatch persists: every heartbeat reports it. The server
\* runs a request it received to its end, and the agent keeps sending heartbeats.
PersistingPayloads == {PayloadRooted, PayloadUnknownImei}

RetryInit ==
    /\ device_type \in {"phone", "tablet"}
    /\ create_entry = Entry(FullBaseline)
    /\ validated_data \in PersistingPayloads
    /\ register_data = EmptyMap
    /\ incoming_data = EmptyMap
    /\ result = NoResult
    /\ SysInit
    /\ loans \in SysLoans
    /\ response_data = NoResponse

RetryNext ==
    \/ \E r \in RequestIds : SeqStart(r, validated_data)
    \/ \E r \in RequestIds : Step(r)

RetryFairness ==
    \A r \in RequestIds :
        /\ WF_vars(SeqStart(r, validated_data))
        /\ WF_vars(Step(r))

SpecRetry == RetryInit /\ [][RetryNext]_vars /\ RetryFairness

----------------------------------------------------------------------------
(* The other endpoints that write to the device's records. Each is one request *)
(* that passed its permission and validation checks.                           *)

\* DeviceDeactivationRequestView.post
DeactivationRequest ==
    /\ IF device.deactivated_at # 0
       THEN UNCHANGED <<device, history>>
       ELSE /\ device' = [device EXCEPT !.deactivate_requested = TRUE]
            /\ history' = history \cup {HistoryRow(0, "deactivation_requested")}
    /\ UNCHANGED <<management, snapshots, signals, requests>>
    /\ UNCHANGED <<cmpVars, rspVars>>

\* DeviceDeactivationConfirmView.post with the status the agent reports
DeactivationConfirm(confirmation_status) ==
    /\ IF confirmation_status = "success"
       THEN /\ device' = [device EXCEPT !.deactivate_requested = FALSE,
                                        !.deactivated_at = 1]
            /\ history' = history \cup {HistoryRow(0, "deactivation_confirmed")}
       ELSE /\ device' = device
            /\ history' = history \cup {HistoryRow(0, "deactivation_failed")}
    /\ UNCHANGED <<management, snapshots, signals, requests>>
    /\ UNCHANGED <<cmpVars, rspVars>>

RecoveryKeys == {"key1", "key2"}

\* DeviceRecoveryKeyView.post
RecoveryKeyPost(new_key) ==
    /\ IF device.disk_recovery_key # new_key
       THEN /\ device' = [device EXCEPT !.disk_recovery_key = new_key]
            /\ history' = history \cup {HistoryRow(0, "info_update")}
            /\ signals' =
                   IF device.loan_status = "loaned" /\ device.disk_recovery_key # "None"
                   THEN signals \cup
                        {[req |-> 0, signal_type |-> "security_alert", level |-> "medium",
                          description |-> Text("Disk Recovery Key was changed", <<>>),
                          auto_action_taken |-> FALSE]}
                   ELSE signals
       ELSE UNCHANGED <<device, history, signals>>
    /\ UNCHANGED <<management, snapshots, requests>>
    /\ UNCHANGED <<cmpVars, rspVars>>

\* MobileInstallationStatusView.post
MobileInstallationStatus(completed) ==
    /\ IF device_type \in {"phone", "tablet"}
       THEN /\ device' = [device EXCEPT
                   !.installation_completed = completed,
                   !.installation_completed_at = IF completed THEN 1 ELSE @]
            /\ history' = history \cup {HistoryRow(0, "info_update")}
       ELSE UNCHANGED <<device, history>>
    /\ UNCHANGED <<management, snapshots, signals, requests>>
    /\ UNCHANGED <<cmpVars, rspVars>>

\* loan.activate_loan(activated_by=system_user) on the approved loan, if any
activate_loan(rows) ==
    LET loan == First(LoansWith(rows, {"approved"}))
    IN  IF loan = NoLoan THEN rows
        ELSE (rows \ {loan}) \cup {[loan EXCEPT !.status = "active"]}

\* DesktopInstallationStatusView.post
DesktopInstallationStatus(completed, recovery_keys) ==
    /\ IF device_type \in {"laptop", "desktop"}
       THEN /\ device' = [device EXCEPT
                   !.installation_completed = completed,
                   !.installation_completed_at = IF completed THEN 1 ELSE @,
                   !.disk_recovery_key = recovery_keys]
            /\ loans' = IF completed THEN activate_loan(loans) ELSE loans
            /\ history' = history \cup {HistoryRow(0, "info_update")}
       ELSE UNCHANGED <<device, loans, history>>
    /\ UNCHANGED <<management, snapshots, signals, requests, response_data>>
    /\ UNCHANGED cmpVars

\* a phone or a laptop registered with the full baseline, without a loan or with
\* one that is approved or completed
AdminInit ==
    /\ device_type \in {"phone", "laptop"}
    /\ create_entry = Entry(FullBaseline)
    /\ validated_data = EmptyMap
    /\ register_data = EmptyMap
    /\ incoming_data = EmptyMap
    /\ result = NoResult
    /\ SysInit
    /\ loans \in SysLoans \cup {{Loan(1, "L1", "approved", {Payment(1, 1, "pending")})}}
    /\ response_data = NoResponse

\* requests to the other endpoints that the model serves
MaxCalls == 2

\* one of the other endpoints serves a request
OtherEndpoint ==
    \/ DeactivationRequest
    \/ \E status \in {"success", "failed"} : DeactivationConfirm(status)
    \/ \E new_key \in RecoveryKeys : RecoveryKeyPost(new_key)
    \/ \E completed \in BOOLEAN : MobileInstallationStatus(completed)
    \/ \E completed \in BOOLEAN : \E recovery_keys \in RecoveryKeys :
           DesktopInstallationStatus(completed, recovery_keys)

Call ==
    /\ NoneInFlight
    /\ calls < MaxCalls
    /\ calls' = calls + 1
    /\ OtherEndpoint

\* heartbeats one after the other, and between them requests to the other endpoints
AdminNext ==
    \/ \E r \in RequestIds : \E payload \in Payloads : SeqStart(r, payload)
    \/ \E r \in RequestIds : Step(r)
    \/ SeqManualLock
    \/ SeqManualUnlock
    \/ Call

SpecAdmin == AdminInit /\ [][AdminNext]_vars

----------------------------------------------------------------------------
(* Properties of the comparison result *)

Compared == result # NoResult

MismatchFields(res) == {res.mismatches[i].field : i \in DOMAIN res.mismatches}
HighMismatches(res) == {i \in DOMAIN res.mismatches : res.mismatches[i].severity = "high"}

\* every value of the entry's map is None, "" or []
BlankValues(entry) ==
    \A key \in DOMAIN entry.new_values :
        entry.new_values[key] \in {None, StrV(<<>>), ListV(<<>>)}

Established == create_entry.exists /\ ~BlankValues(create_entry)

\* C1: should_auto_lock is true exactly when some recorded mismatch has severity
\* high, which is exactly when high_severity_count > 0; mismatches on total_storage
\* alone never set it, a mismatch on is_device_rooted alone always does.
C1_AutoLockIffHigh ==
    Compared =>
        /\ result.should_auto_lock <=> HighMismatches(result) # {}
        /\ result.should_auto_lock <=> result.high_severity_count > 0
        /\ MismatchFields(result) = {"total_storage"} => ~result.should_auto_lock
        /\ MismatchFields(result) = {"is_device_rooted"} => result.should_auto_lock

\* a high and a medium mismatch in one result, which locks
C1_Witness ==
    /\ Compared
    /\ result.should_auto_lock
    /\ MismatchFields(result) = {"is_device_rooted", "total_storage"}

\* C2: with no baseline entry, or one whose values are all None, "" or [], the
\* result has no mismatch, all counts zero, no comparison_details and
\* should_auto_lock false, whatever the incoming data and the device type.
C2_EmptyBaselineNeverFlags ==
    (Compared /\ (~create_entry.exists \/ BlankValues(create_entry))) =>
        /\ result.mismatches = <<>>
        /\ result.high_severity_count = 0
        /\ result.medium_severity_count = 0
        /\ result.total_mismatches = 0
        /\ DOMAIN result.comparison_details = {}
        /\ ~result.should_auto_lock

\* a blank baseline compared with a heartbeat that reports a serial number and a
\* rooted device
C2_Witness ==
    /\ Compared
    /\ create_entry = Entry(BlankBaseline)
    /\ DOMAIN incoming_data = {"serial_number", "is_device_rooted"}
    /\ incoming_data["is_device_rooted"] = BoolV(TRUE)

\* C3: for a desktop or a laptop no mismatch entry and no comparison_details entry
\* names one of the mobile-only or desktop-irrelevant fields.
C3_GatedFields ==
    {"device_imeis", "is_device_rooted", "is_usb_debugging_enabled",
     "is_developer_mode_enabled", "is_bootloader_unlocked", "serial_number",
     "total_storage", "is_custom_rom"}

C3_DesktopFieldGating ==
    (Compared /\ device_type \in {"desktop", "laptop"}) =>
        /\ MismatchFields(result) \cap C3_GatedFields = {}
        /\ DOMAIN result.comparison_details \cap C3_GatedFields = {}

\* a laptop with an established baseline reports an IMEI the baseline lacks and a
\* rooted device
C3_Witness ==
    /\ Compared
    /\ device_type = "laptop"
    /\ create_entry = Entry(FullBaseline)
    /\ DOMAIN incoming_data = {"device_imeis", "is_device_rooted"}
    /\ incoming_data["device_imeis"] = ListV(<<ImeiA, ImeiC>>)
    /\ incoming_data["is_device_rooted"] = BoolV(TRUE)

\* the IMEIs of a list, trimmed and lower-cased, as a set
ImeiSet(value) ==
    IF value.k = "list" THEN {Lower(Strip(PyStr(value.v[i]))) : i \in DOMAIN value.v}
    ELSE {}

\* the device_imeis comparison ran: established baseline, field sent, not gated
ImeiCompared ==
    /\ Compared
    /\ Established
    /\ device_type \notin {"desktop", "laptop"}
    /\ "device_imeis" \in DOMAIN incoming_data

\* C4: device_imeis is a mismatch exactly when the baseline list and the incoming
\* list are both non-empty and some incoming IMEI (trimmed, case-insensitive) is
\* not in the baseline; an empty or absent list on either side is a match. Stated
\* on the sets of IMEIs, so the order of the lists does not matter.
C4_ImeiSubsetRule ==
    ImeiCompared =>
        LET R == ImeiSet(Get(create_entry.new_values, "device_imeis"))
            C == ImeiSet(incoming_data["device_imeis"])
        IN  /\ "device_imeis" \in MismatchFields(result)
                <=> (R # {} /\ C # {} /\ ~(C \subseteq R))
            /\ "device_imeis" \in DOMAIN result.comparison_details
            /\ result.comparison_details["device_imeis"].status = "mismatch"
                <=> "device_imeis" \in MismatchFields(result)

\* the baseline holds A and B, the heartbeat sends them in the other order
C4_Witness ==
    /\ ImeiCompared
    /\ create_entry = Entry(FullBaseline)
    /\ incoming_data["device_imeis"] = ListV(<<ImeiB, ImeiA>>)
    /\ result.comparison_details["device_imeis"].status = "matched"

\* the decimal number a RAM value states, as the regular expression reads it
RamDecimal(value) ==
    IF value.k = "str" /\ RamToken(value.v) # <<>> THEN ParseDecimal(RamToken(value.v))
    ELSE [n |-> -1, den |-> 1]

\* the installed_ram tolerance comparison ran: established baseline, desktop or
\* laptop, field sent
RamCompared ==
    /\ Compared
    /\ Established
    /\ device_type \in {"desktop", "laptop"}
    /\ "installed_ram" \in DOMAIN incoming_data

\* C5: on a desktop or laptop installed_ram is a mismatch exactly when both sides
\* state a number of GB and the current number is below the baseline number minus
\* 1; a current value exactly 1 GB below the baseline is a match, and a missing or
\* unparseable value on either side is a match.
C5_RamTolerance ==
    RamCompared =>
        LET b == RamDecimal(Get(create_entry.new_values, "installed_ram"))
            c == RamDecimal(incoming_data["installed_ram"])
        IN  "installed_ram" \in MismatchFields(result)
                <=> (b.n >= 0 /\ c.n >= 0 /\ c.n * b.den < (b.n - b.den) * c.den)

\* C6: the reason of every mismatch entry is the fixed text of its field and holds
\* no value of the baseline or of the heartbeat.
C6_NoValueLeakage ==
    Compared =>
        \A i \in DOMAIN result.mismatches :
            /\ result.mismatches[i].reason = _get_mismatch_reason(result.mismatches[i].field)
            /\ result.mismatches[i].reason.args = <<>>

----------------------------------------------------------------------------
(* Properties of the heartbeat endpoint *)

Done(r) == r \in DOMAIN requests /\ Req(r).pc = "done"

AutoLockSignals == {s \in signals : s.signal_type = "device_tampered"}

\* C7: heartbeats processed concurrently for one device lock it once: every
\* auto-lock signal (device_tampered) belongs to a heartbeat whose lock call moved
\* the device from unlocked to locked, so a lock transition is never signalled twice.
C7_OneSignalPerLockTransition ==
    \A s \in AutoLockSignals : Req(s.req).moved_to_locked

\* the heartbeat r asked for an auto-lock, found the device locked, and is past
\* the auto-lock test
AlreadyLockedTail(r) ==
    /\ InFlight(r)
    /\ Req(r).pc \in {"summary", "ensure_management", "respond"}
    /\ Req(r).cmp.should_auto_lock
    /\ Req(r).saw_locked

\* C8: with heartbeats processed one after the other, a heartbeat that asks for
\* an auto-lock on a device that is already locked leaves the management record
\* as it is, creates no auto-lock signal, does not mark its snapshot auto_locked,
\* and ends with the success response unless one of its own writes raised.
C8_IdempotentAutoLock ==
    [][\A r \in RequestIds :
          AlreadyLockedTail(r) =>
              /\ management' = management
              /\ AutoLockSignals' = AutoLockSignals
              /\ ~snapshots'[r].auto_locked
              /\ snapshots'[r].lock_reason = None
              /\ Done(r)' => (Req(r).response' = "ok" \/ Req(r).failed' # Req(r).failed)]_vars

\* a HIGH heartbeat on a locked device has completed with the success response
C8_Witness ==
    \E r \in RequestIds :
        /\ Done(r)
        /\ Req(r).response = "ok"
        /\ Req(r).cmp.should_auto_lock
        /\ Req(r).saw_locked
        /\ management.is_locked
        /\ AutoLockSignals = {}

\* C9: no step of a heartbeat moves the device from locked to unlocked; the only
\* step that does is the unlock action of the management endpoint.
C9_HeartbeatNeverUnlocks ==
    [][(management.is_locked /\ ~management'.is_locked) => ManualUnlock]_vars

\* a heartbeat without any mismatch has completed on a device that is still locked
C9_Witness ==
    \E r \in RequestIds :
        /\ Done(r)
        /\ Req(r).response = "ok"
        /\ Req(r).cmp.total_mismatches = 0
        /\ Req(r).loaded_locked
        /\ management.is_locked

\* the writes of the lock transition and of the tamper signals
LockWrites == {"management", "block_reason", "lock"}
SignalWrites == {"tamper_signal", "summary"}

\* C10: a heartbeat whose tamper-signal write or lock transition raised is
\* recovered locally: it still ends with the success response and its snapshot
\* remains.
C10_SignalOrLockFailureRecovered ==
    \A r \in RequestIds :
        (Done(r) /\ Req(r).failed # {} /\ Req(r).failed \subseteq LockWrites \cup SignalWrites)
            => (Req(r).response = "ok" /\ r \in DOMAIN snapshots)

----------------------------------------------------------------------------
(* Properties of the heartbeat endpoint, continued *)

SignalsOf(r) == {s \in signals : s.req = r}

\* C11: a heartbeat that ends in an error response has left nothing behind: no
\* update of the Device row, no snapshot, no audit history entry, no lock
\* transition and no tamper signal of that request.
C11_ErrorLeavesNoPartialState ==
    \A r \in RequestIds :
        (Done(r) /\ Req(r).response = "error") =>
            /\ device.last_seen_at # r
            /\ r \notin DOMAIN snapshots
            /\ \A row \in history : row.req # r
            /\ ~Req(r).moved_to_locked
            /\ SignalsOf(r) = {}

Processed(r) == Done(r) /\ Req(r).response = "ok"

SummarySignalsOf(r) ==
    {s \in SignalsOf(r) : s.signal_type \in {"security_breach", "system_alert"}}

\* C12: a processed heartbeat has created one mismatch-summary signal if its
\* snapshot counts at least one mismatch and none otherwise; the signal's level is
\* high when the snapshot counts a HIGH mismatch and medium otherwise, and its
\* description names exactly the mismatched fields. A heartbeat without a
\* mismatch has created no signal at all.
C12_SummarySignalIffMismatch ==
    \A r \in RequestIds :
        Processed(r) =>
            LET stored == snapshots[r].comparison_result
                summary == SummarySignalsOf(r)
            IN  /\ Cardinality(summary) = IF stored.total_mismatches > 0 THEN 1 ELSE 0
                /\ \A s \in summary :
                       /\ s.level = IF stored.high_severity_count > 0 THEN "high" ELSE "medium"
                       /\ Range(s.description.args) = MismatchFields(stored)
                       /\ Len(s.description.args) = Len(stored.mismatches)
                       /\ s.description.text = "Device data mismatch detected"
                /\ stored.total_mismatches = 0 => SignalsOf(r) = {}

\* a heartbeat with a medium mismatch only has been processed and has its signal
C12_Witness ==
    \E r \in RequestIds :
        /\ Processed(r)
        /\ snapshots[r].comparison_result.total_mismatches > 0
        /\ snapshots[r].comparison_result.high_severity_count = 0
        /\ \E s \in SummarySignalsOf(r) : s.level = "medium"

----------------------------------------------------------------------------
(* Properties of the heartbeat response *)

Responded == response_data # NoResponse

\* an active loan of the device has an installment due before today that is not paid
OverdueInstallment ==
    \E loan \in loans :
        /\ loan.status = "active"
        /\ \E payment \in loan.payments :
               payment.due_date < Today /\ payment.status # "paid"

\* C13: in the response of a locked device content.reason is "Payment overdue"
\* whenever the active loan has an unpaid installment due before today, also when
\* the heartbeat has HIGH mismatches; it is "Security issue" only without such
\* an installment and with high_severity_count > 0; otherwise "Payment overdue".
\* For a device that is not locked content is is_locked = false without a reason.
C13_LockReasonPrecedence ==
    Responded =>
        LET content == response_data.content
        IN  IF management.is_locked
            THEN /\ DOMAIN content = {"is_locked", "reason"}
                 /\ content.is_locked
                 /\ content.reason =
                        IF OverdueInstallment THEN "Payment overdue"
                        ELSE IF result.high_severity_count > 0 THEN "Security issue"
                        ELSE "Payment overdue"
            ELSE /\ DOMAIN content = {"is_locked"}
                 /\ ~content.is_locked

\* a locked device with an overdue installment and a HIGH mismatch was answered
C13_Witness ==
    /\ Responded
    /\ management.is_locked
    /\ OverdueInstallment
    /\ result.high_severity_count > 0
    /\ response_data.content.reason = "Payment overdue"

\* comparison results of other baselines, device types and payloads
AlternativeIncoming ==
    {EmptyMap,
     [is_device_rooted |-> BoolV(TRUE)],
     [total_storage |-> Storage32],
     [is_device_rooted |-> BoolV(TRUE), serial_number |-> ImeiC],
     [device_imeis |-> ListV(<<ImeiC>>), installed_ram |-> Ram8]}
AlternativeResults ==
    {_compare_heartbeat_with_registration(dtype, entry, incoming) :
        dtype \in RespDeviceTypes,
        entry \in {Entry(FullBaseline), Entry(BlankBaseline), NoEntry},
        incoming \in AlternativeIncoming}

----------------------------------------------------------------------------
(* Properties of the comparison, continued *)

Idempotent(value) ==
    _normalize_for_comparison(_normalize_for_comparison(value))
        = _normalize_for_comparison(value)

\* C15: normalizing a normalized value returns it unchanged, for every value
\* the comparison normalizes: each baseline value and each incoming value, alone
\* and as the value of a mapping.
C15_NormalizerIdempotent ==
    /\ \A field \in DOMAIN incoming_data :
           /\ Idempotent(incoming_data[field])
           /\ Idempotent(DictV([value |-> incoming_data[field]]))
    /\ \A field \in DOMAIN create_entry.new_values :
           Idempotent(create_entry.new_values[field])


----------------------------------------------------------------------------
(* Properties of the registration baseline under the device's endpoints *)

\* the "create" entries among the audit entries written after registration
LaterCreateEntries == {row \in history : row.action = "create"}

\* C16: the registration baseline is immutable. No step of a heartbeat (an
\* auto-lock included), no manual lock or unlock, no deactivation request or
\* confirmation, no recovery-key post and no installation-status report changes
\* the "create" entry or the map _get_registration_baseline reads from it, and
\* none of them writes another "create" entry.
C16_BaselineImmutable ==
    [][ /\ create_entry' = create_entry
        /\ _get_registration_baseline(create_entry')
               = _get_registration_baseline(create_entry)
        /\ LaterCreateEntries' = {} ]_vars

\* a device that was auto-locked by a heartbeat with a mismatch and then served
\* a deactivation request and a recovery-key or installation report, with its
\* baseline still the registered one
C16_Witness ==
    /\ management.exists /\ management.is_locked
    /\ \E row \in history : row.action = "heartbeat_mismatch"
    /\ \E row \in history : row.action = "deactivation_requested"
    /\ \E row \in history : row.action = "info_update"
    /\ \E s \in signals : s.signal_type = "device_tampered"
    /\ _get_registration_baseline(create_entry) = FullBaseline

----------------------------------------------------------------------------
(* Properties of the snapshot's auto-lock mark *)

\* C17: the snapshot of a heartbeat is marked auto_locked, with its lock_reason
\* set, exactly when the processing of that heartbeat moved the device from
\* unlocked to locked, whatever the interleaving of heartbeats, also when the
\* lock call reports that the device was already locked and when a write of
\* the auto-lock step raises.
C17_AutoLockedIffMoved ==
    \A r \in DOMAIN requests :
        (Req(r).pc \in {"done", "error"} /\ r \in DOMAIN snapshots) =>
            /\ snapshots[r].auto_locked <=> Req(r).moved_to_locked
            /\ snapshots[r].auto_locked => snapshots[r].lock_reason # None

----------------------------------------------------------------------------
(* Properties of lock_reason *)

\* the fields recorded with a mismatch of high severity
HighFields == {m.field : m \in {x \in Range(result.mismatches) : x.severity = "high"}}

\* C18: when should_auto_lock is true, lock_reason is one string that names
\* every field recorded with a HIGH-severity mismatch, each once, and no other
\* field, joined by commas; when should_auto_lock is false, lock_reason is null.
C18_LockReasonNamesHighFields ==
    Compared =>
        IF result.should_auto_lock
        THEN /\ result.lock_reason # None
             /\ result.lock_reason.text = "Device security compromised"
             /\ Range(result.lock_reason.args) = HighFields
             /\ Len(result.lock_reason.args) = Cardinality(HighFields)
        ELSE result.lock_reason = None

\* an auto-locking comparison that also recorded a mismatch of medium severity
C18_Witness ==
    /\ Compared
    /\ result.should_auto_lock
    /\ HighFields # {}
    /\ \E m \in Range(result.mismatches) : m.severity = "medium"
    /\ result.lock_reason # None

----------------------------------------------------------------------------
(* Properties of the deactivation command *)

\* the response tells the agent to deactivate
DeliversDeactivation(data) ==
    /\ data # NoResponse
    /\ data.deactivation.status = "requested"
    /\ "command" \in DOMAIN data.deactivation
    /\ data.deactivation.command = "DEACTIVATE_NOW"

\* the step is the answer 200 of heartbeat r
Answers(r) == At(r, "respond") /\ requests'[r].response = "ok"

\* C19: once a deactivation request of the admin has succeeded, every heartbeat
\* answered while the device's deactivate_requested flag is set carries
\* deactivation.status "requested" and the command DEACTIVATE_NOW; the flag is
\* cleared by nothing but a confirmation with status success, and a confirmation
\* with a failed status leaves deactivate_requested and deactivated_at as they are.
C19_DeactivationDelivery ==
    [][ /\ \A r \in RequestIds :
               (Answers(r) /\ device.deactivate_requested) =>
                   DeliversDeactivation(requests'[r].response_data)
        /\ (device.deactivate_requested /\ ~device'.deactivate_requested) =>
               /\ device'.deactivated_at # 0
               /\ HistoryRow(0, "deactivation_confirmed") \in history'
               /\ calls' = calls + 1
        /\ (HistoryRow(0, "deactivation_failed") \in history' \ history) =>
               /\ device'.deactivate_requested = device.deactivate_requested
               /\ device'.deactivated_at = device.deactivated_at ]_vars

\* a device without a loan: the first heartbeat was answered with status
\* "none", then the admin's request succeeded and a confirmation failed, and
\* the second heartbeat was answered with the command
C19_Witness ==
    /\ loans = {}
    /\ HistoryRow(0, "deactivation_requested") \in history
    /\ HistoryRow(0, "deactivation_failed") \in history
    /\ device.deactivate_requested /\ device.deactivated_at = 0
    /\ Done(1) /\ Req(1).response = "ok"
    /\ Req(1).response_data.deactivation.status = "none"
    /\ Done(2) /\ Req(2).response = "ok"
    /\ DeliversDeactivation(Req(2).response_data)

----------------------------------------------------------------------------
(* Properties of the default comparison *)

\* the compared fields that the default comparison handles
ExactFields ==
    {field \in DOMAIN result.comparison_details :
        /\ field # "device_imeis"
        /\ ~(field = "installed_ram" /\ IsDesktop(device_type))}

\* the two sides of a field as the default comparison sees them
NormalizedRegistered(field) ==
    _normalize_for_comparison(Get(_get_registration_baseline(create_entry), field))
NormalizedCurrent(field) == _normalize_for_comparison(Get(incoming_data, field))

\* C20 as stated: for every tracked field that the default comparison handles
\* (not device_imeis, not installed_ram of a desktop or laptop), a mismatch is
\* recorded exactly when the normalized baseline value and the normalized incoming
\* value are unequal: equal values give a match, and every unequal pair gives a
\* mismatch with the severity of _calculate_severity.
C20_ExactComparator ==
    Compared =>
        \A field \in ExactFields :
            LET equal == PyEq(NormalizedRegistered(field), NormalizedCurrent(field))
            IN  /\ equal => result.comparison_details[field].status = "matched"
                /\ ~equal =>
                       /\ field \in MismatchFields(result)
                       /\ result.comparison_details[field].status = "mismatch"
                       /\ result.comparison_details[field].severity
                              = _calculate_severity(field)

\* C20, amended: for every tracked field that the default comparison handles,
\* equal normalized values give a match; unequal normalized values that are both
\* empty (None, "", False, 0, an empty list) are recorded as "both_empty" without
\* a mismatch; every other unequal pair gives a mismatch with the severity of
\* _calculate_severity. No other field status is recorded.
C20_ExactComparatorUnlessBothEmpty ==
    Compared =>
        \A field \in ExactFields :
            LET registered_normalized == NormalizedRegistered(field)
                current_normalized == NormalizedCurrent(field)
                equal == PyEq(registered_normalized, current_normalized)
                both_empty == ~Truthy(registered_normalized) /\ ~Truthy(current_normalized)
                detail == result.comparison_details[field]
            IN  /\ equal => (detail.status = "matched" /\ field \notin MismatchFields(result))
                /\ (~equal /\ both_empty) =>
                       (detail.status = "both_empty" /\ field \notin MismatchFields(result))
                /\ (~equal /\ ~both_empty) =>
                       /\ field \in MismatchFields(result)
                       /\ detail.status = "mismatch"
                       /\ detail.severity = _calculate_severity(field)

\* a comparison that passed over one unequal pair of empty values and recorded
\* a mismatch for another field
C20_Witness ==
    /\ Compared
    /\ \E field \in ExactFields :
           /\ result.comparison_details[field].status = "both_empty"
           /\ ~PyEq(NormalizedRegistered(field), NormalizedCurrent(field))
    /\ \E field \in ExactFields :
           /\ result.comparison_details[field].status = "mismatch"
           /\ field \in MismatchFields(result)
----------------------------------------------------------------------------
(* Properties of the IMEI comparison inside a heartbeat *)

\* the heartbeat's comparison ran
HeartbeatCompared(r) == r \in DOMAIN requests /\ Req(r).cmp # NoResult

ImeiDetail(r) == Req(r).cmp.comparison_details["device_imeis"]

ImeiWarned(r) == ImeiDetail(r).status = "matched_with_warning"

\* the fields a signal's description names
FieldsNamed(s) == IF s.description = None THEN {} ELSE Range(s.description.args)

\* C21: when every incoming IMEI is in the baseline, device_imeis is a match, and
\* it carries a warning (status matched_with_warning) exactly when the incoming
\* list is shorter than the baseline list. A mismatch carries no warning. A warning
\* adds no mismatch entry and no severity count, does not set should_auto_lock,
\* and no TamperSignal of the heartbeat names the field; a heartbeat whose only
\* finding is the warning locks nothing and creates no TamperSignal at all.
C21_ImeiDecreaseWarning ==
    \A r \in RequestIds :
        HeartbeatCompared(r) =>
            LET res == Req(r).cmp
                current == Req(r).incoming["device_imeis"]
                registered == create_entry.new_values["device_imeis"]
                detail == ImeiDetail(r)
            IN  /\ ImeiSet(current) \subseteq ImeiSet(registered) =>
                       /\ detail.status \in {"matched", "matched_with_warning"}
                       /\ ImeiWarned(r) <=> Len(current.v) < Len(registered.v)
                /\ "warning" \in DOMAIN detail <=> ImeiWarned(r)
                /\ detail.status = "mismatch" => "warning" \notin DOMAIN detail
                /\ ImeiWarned(r) =>
                       /\ "device_imeis" \notin MismatchFields(res)
                       /\ res.high_severity_count + res.medium_severity_count
                              = Cardinality(MismatchFields(res) \ {"device_imeis"})
                       /\ res.should_auto_lock => HighMismatches(res) # {}
                       /\ \A s \in SignalsOf(r) : "device_imeis" \notin FieldsNamed(s)
                       /\ res.total_mismatches = 0 =>
                              /\ ~res.should_auto_lock
                              /\ ~Req(r).moved_to_locked
                              /\ SignalsOf(r) = {}

\* a processed heartbeat with one IMEI less and nothing else
C21_Witness ==
    \E r \in RequestIds :
        /\ Processed(r)
        /\ ImeiWarned(r)
        /\ Req(r).cmp.total_mismatches = 0
        /\ Len(Req(r).incoming["device_imeis"].v) = 1
----------------------------------------------------------------------------
(* Properties of the comparison result, continued *)

SeverityOf(res, field) ==
    {res.mismatches[i].severity : i \in {j \in DOMAIN res.mismatches :
                                            res.mismatches[j].field = field}}

\* C22: an installed_ram mismatch on a desktop or laptop is recorded with severity
\* high and sets should_auto_lock; on any other device type it is recorded with
\* severity medium, and when it is the only mismatch should_auto_lock is false.
C22_RamSeverityByDeviceType ==
    (Compared /\ "installed_ram" \in MismatchFields(result)) =>
        IF IsDesktop(device_type)
        THEN /\ SeverityOf(result, "installed_ram") = {"high"}
             /\ result.comparison_details["installed_ram"].severity = "high"
             /\ result.should_auto_lock
        ELSE /\ SeverityOf(result, "installed_ram") = {"medium"}
             /\ result.comparison_details["installed_ram"].severity = "medium"
             /\ MismatchFields(result) = {"installed_ram"} => ~result.should_auto_lock

\* a laptop whose RAM fell below the tolerance and nothing else changed
C22_Witness ==
    /\ Compared
    /\ device_type = "laptop"
    /\ MismatchFields(result) = {"installed_ram"}
    /\ result.should_auto_lock

\* a phone whose installed_ram changed and nothing else
C22_MobileCase ==
    /\ Compared
    /\ device_type = "phone"
    /\ MismatchFields(result) = {"installed_ram"}
    /\ ~result.should_auto_lock
----------------------------------------------------------------------------
(* Properties of the payload normalizers and of the comparison behind them *)

NoImeis == {None, ListV(<<>>)}

\* the payload carries no IMEI data: the key is absent, null or an empty list,
\* at the top level and in imei_info
NoImeiData(data) ==
    /\ Get(data, "device_imeis") \in NoImeis
    /\ Get(Wrapper(data, "imei_info"), "device_imeis") \in NoImeis

RealImeiBaseline ==
    /\ create_entry.new_values["device_imeis"].v # <<>>
    /\ NO_IMEI_FOUND \notin Range(create_entry.new_values["device_imeis"].v)

\* C23: for a phone or tablet whose baseline holds real IMEIs, a heartbeat whose
\* payload carries no IMEI data (absent, null or empty list) is a match for
\* device_imeis after the normalizer and the comparison: no mismatch is recorded
\* for the field and the field does not trigger auto-lock.
C23_NoImeiDataIsMatch ==
    (/\ Compared
     /\ device_type \in {"phone", "tablet"}
     /\ RealImeiBaseline
     /\ NoImeiData(validated_data)) =>
        /\ "device_imeis" \notin MismatchFields(result)
        /\ result.should_auto_lock =>
               \E i \in HighMismatches(result) : result.mismatches[i].field # "device_imeis"

\* the canonical fields of the agent payloads that the normalizers copy as they are
CopiedFields == {"is_device_rooted", "latitude"}

FlatWins(data, normalized) ==
    \A key \in CopiedFields :
        Get(data, key) # None => (key \in DOMAIN normalized /\ normalized[key] = data[key])

\* C24: in both payload normalizers a canonical field that is present and not null
\* at the top level of the payload has the top-level value in the output, whatever
\* a nested wrapper holds for it, also when the top-level value is false or 0.
C24_FlatWinsOverNested ==
    /\ incoming_data # EmptyMap => FlatWins(validated_data, incoming_data)
    /\ register_data # EmptyMap => FlatWins(validated_data, register_data)

\* the IMEI data a payload gives: the top-level device_imeis when it is not null,
\* else the one inside imei_info
GivenImeis(data) ==
    IF Get(data, "device_imeis") # None THEN data["device_imeis"]
    ELSE Get(Wrapper(data, "imei_info"), "device_imeis")

\* the list the claim assigns to the given IMEI data
ExpectedImeis(given) ==
    IF given \in NoImeis THEN ListV(<<NO_IMEI_FOUND>>)
    ELSE IF given.k = "str" THEN ListV(<<given>>)
    ELSE given

ImeiListOf(data, normalized) ==
    /\ "device_imeis" \in DOMAIN normalized
    /\ normalized["device_imeis"].k = "list"
    /\ normalized["device_imeis"].v # <<>>
    /\ normalized["device_imeis"] = ExpectedImeis(GivenImeis(data))

\* C25: the output of both mobile payload normalizers holds device_imeis as a
\* non-empty list: a single string becomes a one-element list, a non-empty list is
\* passed through, and an explicit empty list as well as no IMEI data at all give
\* exactly ["NO_IMEI_FOUND"].
C25_ImeiSentinel ==
    /\ incoming_data # EmptyMap => ImeiListOf(validated_data, incoming_data)
    /\ register_data # EmptyMap => ImeiListOf(validated_data, register_data)

\* the same without the last conjunct of ImeiListOf: device_imeis is always there
\* as a non-empty list
ImeisAlwaysNonEmptyList ==
    \A normalized \in {incoming_data, register_data} \ {EmptyMap} :
        /\ "device_imeis" \in DOMAIN normalized
        /\ normalized["device_imeis"].k = "list"
        /\ normalized["device_imeis"].v # <<>>

\* the status the three cases of the baseline resolution are named by
BaselineStatus(entry) ==
    IF ~entry.exists THEN "not_established"
    ELSE IF BlankValues(entry) THEN "empty_baseline"
    ELSE "established"

\* C26: the comparison result reports the baseline status in every case:
\* "not_established" when the device has no baseline entry, "empty_baseline" when
\* the entry exists and each of its values is null, empty or an empty list (an
\* entry with an empty map included), and "established" otherwise.
C26_BaselineStatus ==
    Compared => result.baseline_status = BaselineStatus(create_entry)

\* the two statuses the code does report, for an absent entry and for blank values
BaselineStatusOfSkippedComparison ==
    Compared =>
        /\ ~create_entry.exists => result.baseline_status = "not_established"
        /\ (/\ create_entry.exists
            /\ create_entry.new_values # EmptyMap
            /\ BlankValues(create_entry)) => result.baseline_status = "empty_baseline"
        /\ Established <=> result.baseline_status = NoKey
----------------------------------------------------------------------------
(* Properties of the auto-lock across heartbeats *)

\* a write of the lock transition raised in heartbeat r
LockFailed(r) == Done(r) /\ Req(r).failed \cap LockWrites # {}

\* C27: when the lock transition fails in a heartbeat with a HIGH mismatch, the
\* heartbeat's snapshot stays persisted with the mismatch and the device stays
\* unlocked until another heartbeat arrives; the next processed heartbeat with
\* the same HIGH mismatch attempts the lock again; and with the mismatch
\* persisting and the writes no longer failing the device is eventually locked.
C27_RetryAfterFailedLock ==
    /\ [](\A r \in RequestIds :
             LockFailed(r) =>
                 /\ r \in DOMAIN snapshots
                 /\ snapshots[r].high_severity_count > 0
                 /\ ~Req(r).moved_to_locked
                 /\ (r + 1) \notin DOMAIN requests => ~management.is_locked
                 /\ Processed(r + 1) =>
                        \/ Req(r + 1).moved_to_locked
                        \/ Req(r + 1).failed \cap LockWrites # {})
    /\ \A r \in RequestIds : LockFailed(r) ~> management.is_locked

\* the lock failed in the first heartbeat and the second one locked the device
C27_Witness ==
    /\ LockFailed(1)
    /\ Processed(2)
    /\ Req(2).moved_to_locked
    /\ management.is_locked

\* the liveness part of C27 alone
EventuallyLockedAfterFailure == \A r \in RequestIds : LockFailed(r) ~> management.is_locked
----------------------------------------------------------------------------
(* Properties of the comparison result: which fields it speaks of *)

TrackedFields == Range(HEARTBEAT_TRACKED_FIELDS)

\* C28: only tracked fields that the incoming data holds are compared: a tracked
\* field absent from the incoming data has no mismatch and no comparison_details
\* entry whatever the baseline holds for it, and no field outside the tracked
\* list is in mismatches or comparison_details.
C28_OnlyPresentTrackedFields ==
    Compared =>
        /\ \A field \in TrackedFields \ DOMAIN incoming_data :
               /\ field \notin MismatchFields(result)
               /\ field \notin DOMAIN result.comparison_details
        /\ MismatchFields(result) \subseteq TrackedFields
        /\ DOMAIN result.comparison_details \subseteq TrackedFields

\* a comparison that ran with an untracked field that differs from the baseline,
\* a tracked field that differs, and without the serial number the baseline holds
C28_Witness ==
    /\ Compared
    /\ Established
    /\ "model" \in DOMAIN incoming_data
    /\ incoming_data["model"] # Get(create_entry.new_values, "model")
    /\ "serial_number" \notin DOMAIN incoming_data
    /\ Get(create_entry.new_values, "serial_number") = S(<<"X", "1">>)
    /\ MismatchFields(result) # {}

MismatchesOf(res, field) == {i \in DOMAIN res.mismatches : res.mismatches[i].field = field}

\* C29: in every comparison result total_mismatches is the length of mismatches
\* and the sum of the two severity counts; a tracked field is in mismatches at
\* most once; every mismatch has severity "high" or "medium"; and a field is in
\* mismatches exactly when its comparison_details entry has status "mismatch",
\* with the same severity and reason.
C29_ResultConsistency ==
    Compared =>
        /\ result.total_mismatches = Len(result.mismatches)
        /\ result.total_mismatches
               = result.high_severity_count + result.medium_severity_count
        /\ result.high_severity_count = Cardinality(HighMismatches(result))
        /\ \A field \in TrackedFields : Cardinality(MismatchesOf(result, field)) <= 1
        /\ \A i \in DOMAIN result.mismatches :
               result.mismatches[i].severity \in {"high", "medium"}
        /\ \A field \in TrackedFields :
               LET details == result.comparison_details
               IN  /\ field \in MismatchFields(result) <=>
                          (field \in DOMAIN details /\ details[field].status = "mismatch")
                   /\ \A i \in MismatchesOf(result, field) :
                          /\ details[field].severity = result.mismatches[i].severity
                          /\ details[field].reason = result.mismatches[i].reason

\* a result with a HIGH and a MEDIUM mismatch
C29_Witness ==
    /\ Compared
    /\ result.high_severity_count = 1
    /\ result.medium_severity_count = 1
    /\ Len(result.mismatches) = 2
----------------------------------------------------------------------------
(* Properties of a confirmed deactivation *)

\* the deactivation was confirmed with status success
DeactivationConfirmed == device.deactivated_at # 0 /\ ~device.deactivate_requested

\* C30: once the deactivation is confirmed with status success (deactivated_at
\* set, deactivate_requested cleared), no heartbeat answered later carries
\* deactivation.status "requested" or the command DEACTIVATE_NOW, whatever the
\* device's loans are, and no later operation sets deactivate_requested again.
C30_NoCommandAfterConfirmation ==
    [][ DeactivationConfirmed =>
            /\ \A r \in RequestIds :
                   Answers(r) =>
                       LET deactivation == requests'[r].response_data.deactivation
                       IN  /\ deactivation.status # "requested"
                           /\ "command" \notin DOMAIN deactivation
            /\ ~device'.deactivate_requested ]_vars

\* the part of C30 about the flag alone
FlagStaysClearedAfterConfirmation ==
    [][ DeactivationConfirmed => ~device'.deactivate_requested ]_vars
====
